---------------------------- MODULE Spec2Model ----------------------------
(***************************************************************************)
(* A model of the risk-scoring engine, the derived training load and the   *)
(* recovery predictor of backend/analytics.py, with the stores of          *)
(* backend/models.py and the endpoints of backend/routers that fill them.  *)
(*                                                                         *)
(* Dates are integers (days).  Python's None is the empty tuple <<>> and a *)
(* present optional value x is <<x>>.  Real numbers are exact rationals    *)
(* [n, d] in lowest terms (d > 0); a value that the code rounds to two     *)
(* decimals is an integer number of hundredths.  A Python exception is the *)
(* value Raised, which every caller propagates.                            *)
(*                                                                         *)
(* The arithmetic of the scoring engine is exact: the rounding error of    *)
(* its floating-point operations is not modelled, so where the exact value *)
(* of a score lies halfway between two hundredths the code may report      *)
(* either neighbour and the model reports the even one.  The recovery      *)
(* predictor truncates products of modifiers to whole days, which exposes  *)
(* their rounding error, so its modifiers are IEEE 754 doubles, and so is  *)
(* the product of the four risk modifiers that the engine reports.         *)
(***************************************************************************)
EXTENDS Integers, Sequences, FiniteSets, TLC

None == <<>>
Some(x) == <<x>>
IsNone(o) == o = <<>>
Val(o) == o[1]

\* The element of a one-element set.  A value that is used more than once
\* is bound as x in The({e : x \in {value}}), which computes it once.
The(S) == CHOOSE x \in S : TRUE

(***************************************************************************)
(* Exact arithmetic.                                                       *)
(***************************************************************************)
Abs(x) == IF x < 0 THEN -x ELSE x

RECURSIVE Gcd(_, _)
Gcd(a, b) == IF b = 0 THEN a ELSE Gcd(b, a % b)

Q(n, d) ==
    LET s == IF d < 0 THEN -1 ELSE 1
        g == Gcd(Abs(n), Abs(d))
    IN  [n |-> (s * n) \div g, d |-> (s * d) \div g]

QInt(i) == [n |-> i, d |-> 1]
QAdd(a, b) ==
    LET g == Gcd(a.d, b.d)
    IN  Q(a.n * (b.d \div g) + b.n * (a.d \div g), (a.d \div g) * b.d)
QNeg(a) == [n |-> -a.n, d |-> a.d]
QSub(a, b) == QAdd(a, QNeg(b))
QMul(a, b) ==
    LET g1 == Gcd(Abs(a.n), b.d)
        g2 == Gcd(Abs(b.n), a.d)
    IN  Q((a.n \div g1) * (b.n \div g2), (a.d \div g2) * (b.d \div g1))
QDiv(a, b) == QMul(a, Q(b.d, b.n))
QAbs(a) == [n |-> Abs(a.n), d |-> a.d]

\* a/b <= c/e for naturals a, c and positive b, e, by continued fractions:
\* no product is formed, so the operands may be as large as the integers.
RECURSIVE FracLe(_, _, _, _)
FracLe(a, b, c, e) ==
    LET qa == a \div b
        qc == c \div e
        ra == a % b
        rc == c % e
    IN  IF qa # qc THEN qa < qc
        ELSE IF ra = 0 THEN TRUE
        ELSE IF rc = 0 THEN FALSE
        ELSE FracLe(e, rc, b, ra)

QLe(a, b) ==
    IF a.n <= 0 /\ b.n >= 0 THEN TRUE
    ELSE IF a.n > 0 /\ b.n <= 0 THEN FALSE
    ELSE IF a.n > 0 THEN FracLe(a.n, a.d, b.n, b.d)
    ELSE FracLe(-b.n, b.d, -a.n, a.d)
QLt(a, b) == ~QLe(b, a)
QGt(a, b) == QLt(b, a)
QGe(a, b) == QLe(b, a)
QMin(a, b) == IF QLe(a, b) THEN a ELSE b
QMax(a, b) == IF QLe(a, b) THEN b ELSE a

\* floor(a * b / c) for naturals a, b and positive c, by halving b.
RECURSIVE MulDivMod(_, _, _)
MulDivMod(a, b, c) ==
    IF b = 0 THEN [q |-> 0, r |-> 0]
    ELSE LET h == MulDivMod(a, b \div 2, c)
             t == 2 * h.r + (b % 2) * (a % c)
         IN  [q |-> 2 * h.q + (b % 2) * (a \div c) + t \div c, r |-> t % c]

\* round(x, 2) of a rational, in hundredths; a tie goes to the even
\* neighbour, as Python's round does for an exactly representable tie.
Round2(a) ==
    LET m == Abs(a.n)
        w == m \div a.d
        f == MulDivMod(m % a.d, 200, a.d)
        up == IF f.q % 2 = 1 /\ f.r = 0
              THEN (IF (100 * w + f.q \div 2) % 2 = 1 THEN 1 ELSE 0)
              ELSE f.q % 2
        h == 100 * w + f.q \div 2 + up
    IN  IF a.n < 0 THEN -h ELSE h

\* The rational of a number of hundredths.
Hundredths(h) == Q(h, 100)

RECURSIVE ISqrtIn(_, _, _)
ISqrtIn(x, lo, hi) ==
    IF lo >= hi THEN lo
    ELSE LET mid == (lo + hi + 1) \div 2
         IN  IF mid <= x \div mid THEN ISqrtIn(x, mid, hi)
             ELSE ISqrtIn(x, lo, mid - 1)
ISqrt(x) == IF x < 2 THEN x ELSE ISqrtIn(x, 1, x \div 2 + 1)

\* The largest k >= 0 with (2k-1)^2 * D <= (2*scale*A)^2, i.e. the nearest
\* integer to scale*A/sqrt(D), for A >= 0 and D > 0 not a perfect square
\* (so no tie exists).  With x = 2k-1 and y = 2*scale*A the test is
\* x*D/y <= y/x; where x*D does not fit the integers it is decided on the
\* integer parts and then on the fractions.
MaxInt == 2 * (2 ^ 30 - 1) + 1
NearestHolds(k, A, D, scale) ==
    LET x == 2 * k - 1
        y == 2 * scale * A
    IN  \/ k = 0
        \/ IF x <= MaxInt \div D THEN FracLe(x * D, y, y, x)
           ELSE The({IF f.q # y \div x THEN f.q < y \div x
                     ELSE FracLe(f.r, y, y % x, x)
                     : f \in {MulDivMod(x, D, y)}})

RECURSIVE NearestIn(_, _, _, _, _)
NearestIn(lo, hi, A, D, scale) ==
    IF lo >= hi THEN lo
    ELSE LET mid == (lo + hi + 1) \div 2
         IN  IF NearestHolds(mid, A, D, scale)
             THEN NearestIn(mid, hi, A, D, scale)
             ELSE NearestIn(lo, mid - 1, A, D, scale)

\* round(A / sqrt(D), 2) in hundredths, for an integer A and D > 0.
RoundDivSqrt(A, D) ==
    LET r == ISqrt(D)
        m == Abs(A)
        h == IF r * r = D THEN Round2(Q(m, r))
             ELSE IF m <= 231
                  THEN (ISqrt((40000 * m * m) \div D) + 1) \div 2
                  ELSE NearestIn(100 * (m \div (r + 1)), 100 * (m \div r) + 100,
                                 m, D, 100)
    IN  IF A < 0 THEN -h ELSE h

(***************************************************************************)
(* Sequences of numbers.                                                   *)
(***************************************************************************)
\* Folds over s[lo..hi], by halves.
RECURSIVE SumRange(_, _, _)
SumRange(s, lo, hi) ==
    IF lo > hi THEN 0
    ELSE IF lo = hi THEN s[lo]
    ELSE SumRange(s, lo, (lo + hi) \div 2) + SumRange(s, (lo + hi) \div 2 + 1, hi)
SumSeq(s) == SumRange(s, 1, Len(s))
SumSq(s) == SumSeq([i \in 1..Len(s) |-> s[i] * s[i]])

RECURSIVE GcdRange(_, _, _)
GcdRange(s, lo, hi) ==
    IF lo > hi THEN 0
    ELSE IF lo = hi THEN Abs(s[lo])
    ELSE Gcd(GcdRange(s, lo, (lo + hi) \div 2),
             GcdRange(s, (lo + hi) \div 2 + 1, hi))
GcdSeq(s) == GcdRange(s, 1, Len(s))

RECURSIVE QSumRange(_, _, _)
QSumRange(s, lo, hi) ==
    IF lo > hi THEN QInt(0)
    ELSE IF lo = hi THEN s[lo]
    ELSE QAdd(QSumRange(s, lo, (lo + hi) \div 2),
              QSumRange(s, (lo + hi) \div 2 + 1, hi))
QSum(s) == QSumRange(s, 1, Len(s))

\* max of a non-empty sequence of rationals and of integers.
QMaxSeq(s) == s[CHOOSE i \in 1..Len(s) : \A j \in 1..Len(s) : QLe(s[j], s[i])]
MaxSeq(s) == s[CHOOSE i \in 1..Len(s) : \A j \in 1..Len(s) : s[j] <= s[i]]

\* np.mean of integers and of rationals.
Mean(s) == Q(SumSeq(s), Len(s))
QMean(s) == QDiv(QSum(s), QInt(Len(s)))

\* n^2 times the population variance of the integer sequence s (np.std is
\* sqrt(Variance)/n): zero exactly when all values are equal.
VarianceN2(s) == Len(s) * SumSq(s) - SumSeq(s) * SumSeq(s)

\* s[-k:] and s[:k] of Python.
LastN(s, k) == IF Len(s) <= k THEN s ELSE SubSeq(s, Len(s) - k + 1, Len(s))
FirstN(s, k) == IF Len(s) <= k THEN s ELSE SubSeq(s, 1, k)

\* Python truthiness of an optional number: None and 0 are false.
Truthy(o) == o # None /\ Val(o) # 0
QTruthy(o) == o # None /\ Val(o).n # 0

(***************************************************************************)
(* Binary floating point (IEEE 754 double, round to nearest even).  A      *)
(* natural number is a sequence of limbs, least significant first, in base *)
(* 2^14; a positive double is [m, e] with 2^52 <= m < 2^53 and the value   *)
(* m * 2^e.                                                                *)
(***************************************************************************)
LimbBits == 14
LimbBase == 2 ^ LimbBits

Limb(x, i) == IF i >= 1 /\ i <= Len(x) THEN x[i] ELSE 0

RECURSIVE Trim(_)
Trim(x) ==
    IF x # <<>> /\ x[Len(x)] = 0 THEN Trim(SubSeq(x, 1, Len(x) - 1)) ELSE x

\* The limbs of the number whose i-th column holds cols[i].
RECURSIVE Carry(_, _, _)
Carry(cols, i, c) ==
    IF i > Len(cols)
    THEN (IF c = 0 THEN <<>>
          ELSE <<c % LimbBase>> \o Carry(cols, i, c \div LimbBase))
    ELSE <<(cols[i] + c) % LimbBase>>
         \o Carry(cols, i + 1, (cols[i] + c) \div LimbBase)

BigOfInt(n) == Carry(<<n>>, 1, 0)
IntOfBig(x) == SumSeq([i \in 1..Len(x) |-> x[i] * LimbBase ^ (i - 1)])
BigMulSmall(x, n) == Carry([i \in 1..Len(x) |-> x[i] * n], 1, 0)
BigInc(x) == Carry([i \in 1..Len(x) |-> x[i] + (IF i = 1 THEN 1 ELSE 0)], 1, 0)

\* The product of two numbers of at most 4 limbs each.
BigMul(a, b) ==
    Carry([k \in 1..(Len(a) + Len(b) - 1) |->
              SumSeq([i \in 1..Len(a) |-> a[i] * Limb(b, k - i + 1)])], 1, 0)

\* Quotient and remainder of x by a small d, from limb i down.
RECURSIVE BigDivFrom(_, _, _, _)
BigDivFrom(x, d, i, r) ==
    IF i = 0 THEN [q |-> <<>>, r |-> r]
    ELSE LET t == r * LimbBase + x[i]
             rest == BigDivFrom(x, d, i - 1, t % d)
         IN  [q |-> rest.q \o <<t \div d>>, r |-> rest.r]
BigDivSmall(x, d) == BigDivFrom(x, d, Len(x), 0)

RECURSIVE BitLenSmall(_)
BitLenSmall(n) == IF n = 0 THEN 0 ELSE 1 + BitLenSmall(n \div 2)
BitLen(x) ==
    LET t == Trim(x)
    IN  IF t = <<>> THEN 0
        ELSE LimbBits * (Len(t) - 1) + BitLenSmall(t[Len(t)])

\* Bit j of x, bit 0 the least significant.
Bit(x, j) == (Limb(x, j \div LimbBits + 1) \div 2 ^ (j % LimbBits)) % 2

ShiftRight(x, s) ==
    LET k == s \div LimbBits
        r == s % LimbBits
    IN  Trim([i \in 1..Len(x) |->
                 Limb(x, i + k) \div 2 ^ r
                 + (Limb(x, i + k + 1) % 2 ^ r) * 2 ^ (LimbBits - r)])

ShiftLeft(x, s) ==
    [i \in 1..(s \div LimbBits) |-> 0] \o BigMulSmall(x, 2 ^ (s % LimbBits))

\* x \div 2^s, rounded to nearest, a tie to even; sticky tells that x
\* stands for a little more than x.
RoundShift(x, s, sticky) ==
    The({LET half == Bit(x, s - 1) = 1
             below == sticky \/ \E j \in 0..(s - 2) : Bit(x, j) = 1
             up == half /\ (below \/ Bit(q, 0) = 1)
         IN  IF up THEN BigInc(q) ELSE q
         : q \in {ShiftRight(x, s)}})

\* x * 2^e (and a little more if sticky) rounded to a double.
RoundTo53(x, e, sticky) ==
    The({IF len <= 53
         THEN [m |-> ShiftLeft(x, 53 - len), e |-> e - (53 - len)]
         ELSE The({IF BitLen(q1) = 54
                   THEN [m |-> ShiftRight(q1, 1), e |-> e + (len - 53) + 1]
                   ELSE [m |-> q1, e |-> e + (len - 53)]
                   : q1 \in {RoundShift(x, len - 53, sticky)}})
         : len \in {BitLen(x)}})

\* The double of the decimal literal n/d (d a power of ten below 2^14).
DoubleOf(n, d) ==
    The({RoundTo53(x.q, -70, x.r # 0)
         : x \in {BigDivSmall(ShiftLeft(BigOfInt(n), 70), d)}})

\* a * b of two doubles.
DoubleMul(a, b) == RoundTo53(BigMul(a.m, b.m), a.e + b.e, FALSE)

\* int(a): the integer part.
DoubleTrunc(a) ==
    IF a.e >= 0 THEN IntOfBig(ShiftLeft(a.m, a.e))
    ELSE IntOfBig(ShiftRight(a.m, -a.e))

\* round(a, 2), in hundredths.
DoubleRound2(a) ==
    IntOfBig(RoundShift(BigMulSmall(a.m, 100), -a.e, FALSE))

(***************************************************************************)
(* Strings.  A string is the sequence of its characters; the literals of   *)
(* the code are spelled out below.                                         *)
(***************************************************************************)
UpperCase ==
    <<"A", "B", "C", "D", "E", "F", "G", "H", "I", "J", "K", "L", "M", "N",
      "O", "P", "Q", "R", "S", "T", "U", "V", "W", "X", "Y", "Z">>
LowerCase ==
    <<"a", "b", "c", "d", "e", "f", "g", "h", "i", "j", "k", "l", "m", "n",
      "o", "p", "q", "r", "s", "t", "u", "v", "w", "x", "y", "z">>

LowerChar(ch) ==
    IF \E i \in 1..26 : UpperCase[i] = ch
    THEN LowerCase[CHOOSE i \in 1..26 : UpperCase[i] = ch]
    ELSE ch

\* s.lower()
lower(s) == [i \in 1..Len(s) |-> LowerChar(s[i])]

\* s.replace(old, new) for single characters old and new
replace(s, old, new) == [i \in 1..Len(s) |-> IF s[i] = old THEN new ELSE s[i]]

\* sub in s
Contains(sub, s) ==
    \E i \in 1..(Len(s) - Len(sub) + 1) : SubSeq(s, i, i + Len(sub) - 1) = sub

Str_minor ==
    <<"m", "i", "n", "o", "r">>
Str_mild ==
    <<"m", "i", "l", "d">>
Str_moderate ==
    <<"m", "o", "d", "e", "r", "a", "t", "e">>
Str_severe ==
    <<"s", "e", "v", "e", "r", "e">>
Str_catastrophic ==
    <<"c", "a", "t", "a", "s", "t", "r", "o", "p", "h", "i", "c">>
Str_muscle_strain_grade1 ==
    <<"m", "u", "s", "c", "l", "e", "_", "s", "t", "r", "a", "i", "n", "_",
      "g", "r", "a", "d", "e", "1">>
Str_muscle_strain_grade2 ==
    <<"m", "u", "s", "c", "l", "e", "_", "s", "t", "r", "a", "i", "n", "_",
      "g", "r", "a", "d", "e", "2">>
Str_muscle_strain_grade3 ==
    <<"m", "u", "s", "c", "l", "e", "_", "s", "t", "r", "a", "i", "n", "_",
      "g", "r", "a", "d", "e", "3">>
Str_ligament_sprain_grade1 ==
    <<"l", "i", "g", "a", "m", "e", "n", "t", "_", "s", "p", "r", "a", "i",
      "n", "_", "g", "r", "a", "d", "e", "1">>
Str_ligament_sprain_grade2 ==
    <<"l", "i", "g", "a", "m", "e", "n", "t", "_", "s", "p", "r", "a", "i",
      "n", "_", "g", "r", "a", "d", "e", "2">>
Str_ligament_sprain_grade3 ==
    <<"l", "i", "g", "a", "m", "e", "n", "t", "_", "s", "p", "r", "a", "i",
      "n", "_", "g", "r", "a", "d", "e", "3">>
Str_tendinopathy ==
    <<"t", "e", "n", "d", "i", "n", "o", "p", "a", "t", "h", "y">>
Str_tendon_rupture ==
    <<"t", "e", "n", "d", "o", "n", "_", "r", "u", "p", "t", "u", "r", "e">>
Str_stress_reaction ==
    <<"s", "t", "r", "e", "s", "s", "_", "r", "e", "a", "c", "t", "i", "o",
      "n">>
Str_stress_fracture ==
    <<"s", "t", "r", "e", "s", "s", "_", "f", "r", "a", "c", "t", "u", "r",
      "e">>
Str_bone_fracture ==
    <<"b", "o", "n", "e", "_", "f", "r", "a", "c", "t", "u", "r", "e">>
Str_cartilage_damage ==
    <<"c", "a", "r", "t", "i", "l", "a", "g", "e", "_", "d", "a", "m", "a",
      "g", "e">>
Str_meniscus_tear ==
    <<"m", "e", "n", "i", "s", "c", "u", "s", "_", "t", "e", "a", "r">>
Str_contusion ==
    <<"c", "o", "n", "t", "u", "s", "i", "o", "n">>
Str_laceration ==
    <<"l", "a", "c", "e", "r", "a", "t", "i", "o", "n">>
Str_other ==
    <<"o", "t", "h", "e", "r">>
Str_strain ==
    <<"s", "t", "r", "a", "i", "n">>
Str_sprain ==
    <<"s", "p", "r", "a", "i", "n">>
Str_grade_3 ==
    <<"g", "r", "a", "d", "e", "_", "3">>
Str_grade_2 ==
    <<"g", "r", "a", "d", "e", "_", "2">>
Str_tendon ==
    <<"t", "e", "n", "d", "o", "n">>
Str_rupture ==
    <<"r", "u", "p", "t", "u", "r", "e">>
Str_tear ==
    <<"t", "e", "a", "r">>
Str_fracture ==
    <<"f", "r", "a", "c", "t", "u", "r", "e">>
Str_stress ==
    <<"s", "t", "r", "e", "s", "s">>
Str_bruise ==
    <<"b", "r", "u", "i", "s", "e">>

\* Values of injury_type and body_part in the requests.
Str_Concussion ==
    <<"C", "o", "n", "c", "u", "s", "s", "i", "o", "n">>
Str_Grade_2_Hamstring_Strain ==
    <<"G", "r", "a", "d", "e", " ", "2", " ", "H", "a", "m", "s", "t", "r",
      "i", "n", "g", " ", "S", "t", "r", "a", "i", "n">>
Str_knee ==
    <<"k", "n", "e", "e">>
Str_ankle ==
    <<"a", "n", "k", "l", "e">>

(***************************************************************************)
(* The stores (backend/models.py).  A store is a set of rows.              *)
(***************************************************************************)
VARIABLES athletes, training_loads, treatments, lifestyle_logs,
          injury_history, risk_assessments

\* The calls of calculate_overall_risk answered since the stores last
\* changed, oldest first: records [athlete_id, target_date, locals, value].
VARIABLES calls

\* A request to RecoveryPredictor.predict_recovery_time and, once it is
\* answered, the prediction: <<[request, value]>>, or <<>> without one.
VARIABLES prediction

\* The metrics of a session given to calculate_training_load_from_kinexon
\* and, once it is computed, the training load: <<[metrics, value]>>, or
\* <<>> without one.
VARIABLES derived_load

\* query(...).all() without an order: the rows in id order.
RECURSIVE RowsById(_)
RowsById(rows) ==
    IF rows = {} THEN <<>>
    ELSE LET r == CHOOSE x \in rows : \A y \in rows : x.id <= y.id
         IN  <<r>> \o RowsById(rows \ {r})

\* query(...).order_by(date).all(): rows in date order, equal dates in id
\* order.
RECURSIVE OrderFrom(_, _, _)
OrderFrom(rows, d, last) ==
    IF d > last THEN <<>>
    ELSE IF d = last THEN RowsById({r \in rows : r.date = d})
    ELSE OrderFrom(rows, d, (d + last) \div 2)
         \o OrderFrom(rows, (d + last) \div 2 + 1, last)

OrderByDate(rows) ==
    LET dates == {r.date : r \in rows}
    IN  IF rows = {} THEN <<>>
        ELSE OrderFrom(rows, CHOOSE d \in dates : \A e \in dates : d <= e,
                       CHOOSE d \in dates : \A e \in dates : e <= d)

\* A window without its right end: the rows of athlete_id dated from
\* start_date on.
InWindowFrom(rows, athlete_id, start_date, target_date) ==
    {r \in rows : r.athlete_id = athlete_id /\ r.date >= start_date}

\* The rows of athlete_id dated in start_date .. target_date.
InWindow(rows, athlete_id, start_date, target_date) ==
    {r \in rows : r.athlete_id = athlete_id
                  /\ r.date >= start_date /\ r.date <= target_date}

LoadValues(rows) ==
    The({[i \in 1..Len(s) |-> s[i].training_load] : s \in {OrderByDate(rows)}})

\* The injuries of athlete_id with injury_date in start_date .. target_date.
InjuriesInWindow(rows, athlete_id, start_date, target_date) ==
    {r \in rows : r.athlete_id = athlete_id
                  /\ r.injury_date >= start_date /\ r.injury_date <= target_date}

(***************************************************************************)
(* AnalyticsEngine: thresholds and default arguments.                      *)
(***************************************************************************)
ACWR_HIGH_RISK_UPPER == Q(15, 10)
ACWR_HIGH_RISK_LOWER == Q(8, 10)
MONOTONY_HIGH_RISK == 200
HIGH_RISK_THRESHOLD == 70
MEDIUM_RISK_THRESHOLD == 40
ACUTE_WINDOW == 7
CHRONIC_WINDOW == 28
SPIKE_LOOKBACK == 14
RECOVERY_LOOKBACK == 14
LIFESTYLE_LOOKBACK == 7
INJURY_LOOKBACK == 180
MONOTONY_LOOKBACK == 7
ZSCORE_LOOKBACK == 28
MODIFIER_LOOKBACK == 7
RECENCY_LOOKBACK == 90

(***************************************************************************)
(* The filtered queries: the rows each metric reads.                       *)
(***************************************************************************)
AcwrLoads(db, athlete_id, target_date, chronic_window) ==
    InWindow(db.training_loads, athlete_id,
             target_date - (chronic_window - 1), target_date)

SpikeLoads(db, athlete_id, target_date, lookback_days) ==
    InWindow(db.training_loads, athlete_id,
             target_date - lookback_days, target_date)

RecoveryTreatments(db, athlete_id, target_date, lookback_days) ==
    InWindow(db.treatments, athlete_id,
             target_date - lookback_days, target_date)

LifestyleLogs(db, athlete_id, target_date, lookback_days) ==
    InWindow(db.lifestyle_logs, athlete_id,
             target_date - lookback_days, target_date)

HistoryInjuries(db, athlete_id, target_date, lookback_days) ==
    InjuriesInWindow(db.injury_history, athlete_id,
                     target_date - lookback_days, target_date)

MonotonyLoads(db, athlete_id, target_date, lookback_days) ==
    InWindow(db.training_loads, athlete_id,
             target_date - (lookback_days - 1), target_date)

StrainLoads(db, athlete_id, target_date, lookback_days) ==
    InWindow(db.training_loads, athlete_id,
             target_date - (lookback_days - 1), target_date)

ZScoreLoads(db, athlete_id, target_date, lookback_days) ==
    InWindow(db.training_loads, athlete_id,
             target_date - (lookback_days - 1), target_date)

SleepLogs(db, athlete_id, target_date, lookback_days) ==
    InWindow(db.lifestyle_logs, athlete_id,
             target_date - (lookback_days - 1), target_date)

StressLogs(db, athlete_id, target_date, lookback_days) ==
    InWindow(db.lifestyle_logs, athlete_id,
             target_date - (lookback_days - 1), target_date)

RecencyInjuries(db, athlete_id, target_date) ==
    InjuriesInWindow(db.injury_history, athlete_id,
                     target_date - RECENCY_LOOKBACK, target_date)

(***************************************************************************)
(* The training load derived from the telemetry of a session.  The metrics *)
(* are rationals; the values drawn for them are multiples of 1/16, which   *)
(* the floats of the code hold and combine without rounding error.         *)
(***************************************************************************)
\* The load without the max speed bonus.
training_load_without_max_speed(distance_miles, accumulated_accel_load, average_speed_mph, max_speed_mph) ==
    Round2(QAdd(QAdd(QMul(distance_miles, QInt(160)),
                     QMul(accumulated_accel_load, Q(3, 2))),
                IF QTruthy(average_speed_mph)
                THEN QMul(Val(average_speed_mph), QInt(5)) ELSE QInt(0)))

calculate_training_load_from_kinexon(distance_miles, accumulated_accel_load, average_speed_mph, max_speed_mph) ==
    LET base_load == QMul(distance_miles, QInt(160))
        accel_component == QMul(accumulated_accel_load, Q(3, 2))
        speed_component == IF QTruthy(average_speed_mph)
                           THEN QMul(Val(average_speed_mph), QInt(5))
                           ELSE QInt(0)
        max_speed_component == IF QTruthy(max_speed_mph)
                               THEN QMul(Val(max_speed_mph), QInt(2))
                               ELSE QInt(0)
        training_load == QAdd(QAdd(QAdd(base_load, accel_component),
                                   speed_component), max_speed_component)
    IN  Round2(training_load)

(***************************************************************************)
(* Load metrics.                                                           *)
(***************************************************************************)
\* calculate_acwr with an acute slice one value short.
calculate_acwr_short(db, athlete_id, target_date, acute_window, chronic_window) ==
    LET load_values == LoadValues(AcwrLoads(db, athlete_id, target_date,
                                      chronic_window))
        acute_load == Mean(LastN(load_values, acute_window - 1))
        chronic_load == Mean(load_values)
    IN  IF Len(load_values) < acute_window THEN None
        ELSE Some([acute_load |-> acute_load,
                   chronic_load |-> chronic_load,
                   acwr |-> IF chronic_load.n > 0
                            THEN QDiv(acute_load, chronic_load)
                            ELSE QInt(0)])

calculate_acwr(db, athlete_id, target_date, acute_window, chronic_window) ==
    LET load_values == LoadValues(AcwrLoads(db, athlete_id, target_date,
                                      chronic_window))
        acute_load == Mean(LastN(load_values, acute_window))
        chronic_load == Mean(load_values)
    IN  IF Len(load_values) < acute_window THEN None
        ELSE Some([acute_load |-> acute_load,
                   chronic_load |-> chronic_load,
                   acwr |-> IF chronic_load.n > 0
                            THEN QDiv(acute_load, chronic_load)
                            ELSE QInt(0)])

\* The absolute day-to-day percentage changes of load_values, a transition
\* whose prior value is not positive being skipped.
Changes(load_values) ==
    LET all == [i \in 1..(Len(load_values) - 1) |->
                   IF load_values[i] > 0
                   THEN Some(Q(Abs(load_values[i + 1] - load_values[i]) * 100,
                               load_values[i]))
                   ELSE None]
        kept == SelectSeq(all, LAMBDA c : c # None)
    IN  [i \in 1..Len(kept) |-> Val(kept[i])]

\* calculate_load_spike_score without the cap at 100.
load_spike_score_uncapped(db, athlete_id, target_date, lookback_days) ==
    LET load_values == LoadValues(SpikeLoads(db, athlete_id, target_date,
                                       lookback_days))
        changes == Changes(load_values)
        spike_count == Len(SelectSeq(changes, LAMBDA c : QGt(c, QInt(30))))
    IN  IF Len(load_values) < 3 THEN QInt(0)
        ELSE IF changes = <<>> THEN QInt(0)
        ELSE QAdd(QAdd(QMul(QMean(changes), QInt(2)),
                       QMul(QMaxSeq(changes), Q(1, 2))),
                  QInt(spike_count * 10))

calculate_load_spike_score(db, athlete_id, target_date, lookback_days) ==
    LET load_values == LoadValues(SpikeLoads(db, athlete_id, target_date,
                                       lookback_days))
        changes == Changes(load_values)
        avg_change == QMean(changes)
        max_change == QMaxSeq(changes)
        spike_count == Len(SelectSeq(changes, LAMBDA c : QGt(c, QInt(30))))
    IN  IF Len(load_values) < 3 THEN QInt(0)
        ELSE IF changes = <<>> THEN QInt(0)
        ELSE QMin(QInt(100),
                  QAdd(QAdd(QMul(avg_change, QInt(2)), QMul(max_change, Q(1, 2))),
                       QInt(spike_count * 10)))

\* calculate_training_monotony: None, or the monotony in hundredths.
calculate_training_monotony(db, athlete_id, target_date, lookback_days) ==
    LET load_values == LoadValues(MonotonyLoads(db, athlete_id, target_date,
                                          lookback_days))
        g == GcdSeq(load_values)
    IN  IF Len(load_values) < 3 THEN None
        ELSE IF VarianceN2(load_values) = 0 THEN Some(1000)
        ELSE Some(RoundDivSqrt(SumSeq(load_values) \div g,
                               VarianceN2(load_values) \div (g * g)))

\* calculate_training_strain: None, or the strain in hundredths.
calculate_training_strain(db, athlete_id, target_date, lookback_days) ==
    LET load_values == LoadValues(StrainLoads(db, athlete_id, target_date,
                                        lookback_days))
        total_load == SumSeq(load_values)
        g == GcdSeq(load_values)
    IN  IF Len(load_values) < 3 THEN None
        ELSE IF VarianceN2(load_values) = 0 THEN Some(total_load * 10 * 100)
        ELSE Some(RoundDivSqrt(total_load * (total_load \div g),
                               VarianceN2(load_values) \div (g * g)))

\* Every load of the window as the baseline.
ZBaselineOfAll(load_values) == load_values

\* The baseline population of calculate_z_score_spike.
ZBaseline(load_values) ==
    LET n == Len(load_values)
        first == IF n > 21 THEN FirstN(load_values, n - 7)
                 ELSE FirstN(load_values, (n * 75) \div 100)
    IN  IF Len(first) < 3 THEN load_values ELSE first

\* The z-scores of the last 7 loads against a baseline population, in
\* hundredths: the last one and the largest one.
ZScoresAgainst(load_values, baseline_loads) ==
    LET nb == Len(baseline_loads)
        g == GcdSeq(load_values)
        total == SumSeq(baseline_loads)
        variance == VarianceN2(baseline_loads) \div (g * g)
        recent_loads == LastN(load_values, 7)
        z_scores == [i \in 1..Len(recent_loads) |->
                        RoundDivSqrt((nb * recent_loads[i] - total) \div g,
                                     variance)]
    IN  IF VarianceN2(baseline_loads) = 0
        THEN [current_z_score |-> 0, max_z_score_7d |-> 0]
        ELSE [current_z_score |-> z_scores[Len(z_scores)],
              max_z_score_7d |-> MaxSeq(z_scores)]

calculate_z_score_spike(db, athlete_id, target_date, lookback_days) ==
    The({IF Len(load_values) < 7
         THEN [current_z_score |-> 0, max_z_score_7d |-> 0]
         ELSE The({ZScoresAgainst(load_values, baseline_loads)
                   : baseline_loads \in {ZBaseline(load_values)}})
         : load_values \in {LoadValues(ZScoreLoads(db, athlete_id,
                               target_date, lookback_days))}})

(***************************************************************************)
(* Wellness metrics.                                                       *)
(***************************************************************************)
\* The frequency sub-score alone, without the severity penalty.
recovery_score_by_frequency(db, athlete_id, target_date, lookback_days) ==
    LET rows == RecoveryTreatments(db, athlete_id, target_date, lookback_days)
        treatments_per_week == QDiv(QInt(Cardinality(rows)),
                                    Q(lookback_days, 7))
    IN  IF QLe(QInt(2), treatments_per_week) /\ QLe(treatments_per_week, QInt(4))
        THEN QInt(100)
        ELSE IF QLt(treatments_per_week, QInt(2))
        THEN QMin(QInt(100), QMul(treatments_per_week, QInt(50)))
        ELSE QMax(QInt(0),
                  QSub(QInt(100),
                       QMul(QSub(treatments_per_week, QInt(4)), QInt(10))))

calculate_recovery_score(db, athlete_id, target_date, lookback_days) ==
    LET rows == RecoveryTreatments(db, athlete_id, target_date, lookback_days)
        treatment_count == Cardinality(rows)
        weeks == Q(lookback_days, 7)
        treatments_per_week == QDiv(QInt(treatment_count), weeks)
        frequency_score ==
            IF QLe(QInt(2), treatments_per_week) /\ QLe(treatments_per_week, QInt(4))
            THEN QInt(100)
            ELSE IF QLt(treatments_per_week, QInt(2))
            THEN QMin(QInt(100), QMul(treatments_per_week, QInt(50)))
            ELSE QMax(QInt(0),
                      QSub(QInt(100),
                           QMul(QSub(treatments_per_week, QInt(4)), QInt(10))))
        severe_count == Cardinality({t \in rows :
                            t.severity \in {Some(Str_severe), Some(Str_moderate)}})
        severity_penalty == IF severe_count * 10 < 40 THEN severe_count * 10 ELSE 40
    IN  QMax(QInt(0), QSub(frequency_score, QInt(severity_penalty)))

\* The score and the number of contributing fields of one lifestyle log.
LogScore(log) ==
    LET sleep == IF QTruthy(log.sleep_hours)
                 THEN (LET h == Val(log.sleep_hours)
                       IN  IF QLe(QInt(7), h) /\ QLe(h, QInt(9)) THEN QInt(25)
                           ELSE IF QLe(QInt(6), h) /\ QLe(h, QInt(10)) THEN QInt(15)
                           ELSE QInt(5))
                 ELSE QInt(0)
        quality == IF Truthy(log.sleep_quality)
                   THEN Q(Val(log.sleep_quality) * 25, 10) ELSE QInt(0)
        nutrition == IF Truthy(log.nutrition_score)
                     THEN Q(Val(log.nutrition_score) * 25, 10) ELSE QInt(0)
        stress == IF Truthy(log.stress_level)
                  THEN Q((10 - Val(log.stress_level) + 1) * 25, 10) ELSE QInt(0)
    IN  [log_score |-> QAdd(QAdd(sleep, quality), QAdd(nutrition, stress)),
         factors |-> (IF QTruthy(log.sleep_hours) THEN 1 ELSE 0)
                     + (IF Truthy(log.sleep_quality) THEN 1 ELSE 0)
                     + (IF Truthy(log.nutrition_score) THEN 1 ELSE 0)
                     + (IF Truthy(log.stress_level) THEN 1 ELSE 0)]

calculate_lifestyle_score(db, athlete_id, target_date, lookback_days) ==
    LET logs == RowsById(LifestyleLogs(db, athlete_id, target_date,
                                       lookback_days))
        scored == SelectSeq([i \in 1..Len(logs) |-> LogScore(logs[i])],
                            LAMBDA x : x.factors > 0)
        scores == [i \in 1..Len(scored) |-> scored[i].log_score]
    IN  IF logs = <<>> THEN QInt(50)
        ELSE IF scores = <<>> THEN QInt(50)
        ELSE QMean(scores)

\* The severity multiplier of the injury-history score: .get(severity, 1).
HistorySeverityMultiplier(severity) ==
    IF severity = Some(Str_minor) THEN 1
    ELSE IF severity = Some(Str_moderate) THEN 2
    ELSE IF severity = Some(Str_severe) THEN 3
    ELSE IF severity = Some(Str_catastrophic) THEN 4
    ELSE 1

calculate_injury_history_score(db, athlete_id, target_date, lookback_days) ==
    LET injuries == RowsById(HistoryInjuries(db, athlete_id, target_date,
                                            lookback_days))
        injury_score(injury) ==
            LET days_ago == target_date - injury.injury_date
                recency_factor == QMax(Q(3, 10),
                                       QSub(QInt(1), Q(days_ago, lookback_days)))
            IN  QMul(QMul(QInt(20), recency_factor),
                     QInt(HistorySeverityMultiplier(injury.severity)))
        score == QSum([i \in 1..Len(injuries) |-> injury_score(injuries[i])])
    IN  IF injuries = <<>> THEN QInt(0) ELSE QMin(QInt(100), score)

(***************************************************************************)
(* Risk modifiers, in hundredths.                                          *)
(***************************************************************************)
calculate_sleep_modifier(db, athlete_id, target_date, lookback_days) ==
    LET logs == RowsById(SleepLogs(db, athlete_id, target_date, lookback_days))
        present == SelectSeq(logs, LAMBDA log : QTruthy(log.sleep_hours))
        sleep_hours == [i \in 1..Len(present) |-> Val(present[i].sleep_hours)]
        avg_sleep == QMean(sleep_hours)
    IN  IF logs = <<>> THEN 100
        ELSE IF sleep_hours = <<>> THEN 100
        ELSE IF QLt(avg_sleep, QInt(6)) THEN 140
        ELSE IF QLt(avg_sleep, QInt(7)) THEN 120
        ELSE IF QLe(QInt(7), avg_sleep) /\ QLe(avg_sleep, QInt(9)) THEN 100
        ELSE 110

calculate_stress_modifier(db, athlete_id, target_date, lookback_days) ==
    LET logs == RowsById(StressLogs(db, athlete_id, target_date, lookback_days))
        present == SelectSeq(logs, LAMBDA log : Truthy(log.stress_level))
        stress_levels == [i \in 1..Len(present) |-> Val(present[i].stress_level)]
        avg_stress == Mean(stress_levels)
    IN  IF logs = <<>> THEN 100
        ELSE IF stress_levels = <<>> THEN 100
        ELSE IF QGe(avg_stress, QInt(8)) THEN 130
        ELSE IF QGe(avg_stress, QInt(6)) THEN 115
        ELSE 100

calculate_injury_recency_modifier(db, athlete_id, target_date) ==
    LET injuries == RecencyInjuries(db, athlete_id, target_date)
        most_recent == CHOOSE x \in injuries :
                           \A y \in injuries : x.injury_date >= y.injury_date
        days_since == target_date - most_recent.injury_date
    IN  IF injuries = {} THEN 100
        ELSE IF days_since < 14 THEN 180
        ELSE IF days_since < 30 THEN 150
        ELSE IF days_since < 60 THEN 125
        ELSE 110

calculate_age_modifier(athlete_age) ==
    IF ~Truthy(athlete_age) THEN 100
    ELSE IF Val(athlete_age) < 25 THEN 100
    ELSE IF Val(athlete_age) < 30 THEN 110
    ELSE IF Val(athlete_age) < 35 THEN 120
    ELSE 130

(***************************************************************************)
(* The composer.                                                           *)
(***************************************************************************)
\* What a call yields: Raised when an exception propagates out of it,
\* Returned(x) when it returns x.
Raised == <<"raised", "AttributeError">>
IsRaised(x) == Len(x) = 2
Returned(x) == <<x>>

\* db.query(Athlete).filter(Athlete.id == athlete_id).first()
AthleteRow(db, athlete_id) ==
    IF \E a \in db.athletes : a.id = athlete_id
    THEN Some(CHOOSE a \in db.athletes : a.id = athlete_id)
    ELSE None

\* athlete.age without the guard: None has no attribute age.
AthleteAgeUnguarded(athlete) ==
    IF athlete = None THEN Raised ELSE Val(athlete).age

\* athlete.age if athlete else None
AthleteAge(athlete) == IF athlete = None THEN None ELSE Val(athlete).age

AcwrRisk(acwr) ==
    IF ~QTruthy(acwr) THEN 0
    ELSE IF QGt(Val(acwr), ACWR_HIGH_RISK_UPPER)
            \/ QLt(Val(acwr), ACWR_HIGH_RISK_LOWER) THEN 80
    ELSE IF QGt(Val(acwr), Q(13, 10)) \/ QLt(Val(acwr), Q(9, 10)) THEN 50
    ELSE 20

MonotonyRisk(monotony) ==
    IF ~Truthy(monotony) THEN 0
    ELSE IF Val(monotony) > MONOTONY_HIGH_RISK THEN 60
    ELSE IF Val(monotony) > 150 THEN 30
    ELSE 10

ZScoreRisk(max_z_7d) ==
    IF max_z_7d > 250 THEN 70
    ELSE IF max_z_7d > 200 THEN 50
    ELSE IF max_z_7d > 150 THEN 25
    ELSE 10

RiskLevel(overall_risk) ==
    IF QGe(overall_risk, QInt(HIGH_RISK_THRESHOLD)) THEN "high"
    ELSE IF QGe(overall_risk, QInt(MEDIUM_RISK_THRESHOLD)) THEN "medium"
    ELSE "low"

\* "{:.0f}".format(x) of a number of hundredths: the nearest integer.
Format0(h) == Round2(Q(h, 10000)) * 100

\* The overall risk summary put after the other sentences.
SummaryAppended(recommendations, risk_level) ==
    IF risk_level = "high"
    THEN recommendations \o <<<<"HIGH RISK ALERT", 0>>>>
    ELSE IF risk_level = "medium"
    THEN recommendations \o <<<<"MODERATE RISK", 0>>>>
    ELSE recommendations

\* recommendations.insert(0, ...): the overall risk summary goes first.
WithSummary(recommendations, risk_level) ==
    IF risk_level = "high"
    THEN <<<<"HIGH RISK ALERT", 0>>>> \o recommendations
    ELSE IF risk_level = "medium"
    THEN <<<<"MODERATE RISK", 0>>>> \o recommendations
    ELSE recommendations

\* The default sentence added whatever has fired.
DefaultAppended(recommendations) == recommendations \o <<<<"EXCELLENT", 0>>>>

\* if not recommendations: the default sentence.
WithDefault(recommendations) ==
    IF recommendations = <<>> THEN <<<<"EXCELLENT", 0>>>> ELSE recommendations

\* round(sleep_mod * stress_mod * injury_recency_mod * age_mod, 2) of the
\* float modifiers, in hundredths.  The exact product is a multiple of
\* 10^-8 and the rounding error of the float product is far smaller, so it
\* decides the result only where the exact product lies halfway between two
\* hundredths: there the product is taken in doubles, left to right.
RoundedCompound(sleep_mod, stress_mod, injury_recency_mod, age_mod) ==
    LET product == sleep_mod * stress_mod * injury_recency_mod * age_mod
    IN  IF product % 1000000 # 500000 THEN (product + 500000) \div 1000000
        ELSE The({DoubleRound2(DoubleMul(DoubleMul(DoubleMul(a, b), c), d))
                  : a \in {DoubleOf(sleep_mod, 100)},
                    b \in {DoubleOf(stress_mod, 100)},
                    c \in {DoubleOf(injury_recency_mod, 100)},
                    d \in {DoubleOf(age_mod, 100)}})

generate_enhanced_recommendations(acwr, monotony, strain, current_z, max_z_7d, load_spike_score, recovery_score, lifestyle_score, injury_history_score, sleep_mod, stress_mod, injury_recency_mod, age_mod, risk_level) ==
    LET compound_multiplier ==
            QMul(QMul(Hundredths(sleep_mod), Hundredths(stress_mod)),
                 QMul(Hundredths(injury_recency_mod), Hundredths(age_mod)))
        recommendations ==
            (IF QGt(compound_multiplier, QInt(2))
             THEN <<<<"COMPOUND RISK ALERT",
                     RoundedCompound(sleep_mod, stress_mod,
                                     injury_recency_mod, age_mod)>>>>
             ELSE <<>>)
            \o (IF Truthy(monotony) /\ Val(monotony) > 200
                THEN <<<<"HIGH TRAINING MONOTONY", Val(monotony)>>>>
                ELSE IF Truthy(monotony) /\ Val(monotony) > 150
                THEN <<<<"ELEVATED MONOTONY", Val(monotony)>>>>
                ELSE <<>>)
            \o (IF Truthy(strain) /\ Val(strain) > 300000
                THEN <<<<"EXTREME TRAINING STRAIN", Format0(Val(strain))>>>>
                ELSE <<>>)
            \o (IF max_z_7d > 250
                THEN <<<<"EXTREME LOAD SPIKE", max_z_7d>>>>
                ELSE IF max_z_7d > 200
                THEN <<<<"SIGNIFICANT LOAD SPIKE", max_z_7d>>>>
                ELSE <<>>)
            \o (IF ~QTruthy(acwr) THEN <<>>
                ELSE IF QGt(Val(acwr), Q(15, 10))
                THEN <<<<"ACWR VERY HIGH", Round2(Val(acwr))>>>>
                ELSE IF QLt(Val(acwr), Q(8, 10))
                THEN <<<<"ACWR VERY LOW", Round2(Val(acwr))>>>>
                ELSE IF QGt(Val(acwr), Q(13, 10))
                THEN <<<<"ACWR ELEVATED", Round2(Val(acwr))>>>>
                ELSE <<<<"ACWR OPTIMAL", Round2(Val(acwr))>>>>)
            \o (IF sleep_mod >= 140 THEN <<<<"CRITICAL SLEEP DEFICIT", 0>>>>
                ELSE IF sleep_mod >= 120 THEN <<<<"POOR SLEEP", 0>>>>
                ELSE <<>>)
            \o (IF stress_mod >= 130 THEN <<<<"HIGH STRESS LOAD", 0>>>>
                ELSE IF stress_mod >= 115 THEN <<<<"MODERATE STRESS", 0>>>>
                ELSE <<>>)
            \o (IF injury_recency_mod >= 180 THEN <<<<"VERY RECENT INJURY", 0>>>>
                ELSE IF injury_recency_mod >= 150 THEN <<<<"RECENT INJURY", 0>>>>
                ELSE <<>>)
            \o (IF age_mod >= 130 THEN <<<<"AGE CONSIDERATION", 0>>>> ELSE <<>>)
            \o (IF QLt(recovery_score, QInt(40))
                THEN <<<<"LOW RECOVERY SCORE", 0>>>>
                ELSE IF QLt(recovery_score, QInt(60))
                THEN <<<<"MODERATE RECOVERY NEEDED", 0>>>>
                ELSE <<>>)
            \o (IF QLt(lifestyle_score, QInt(50))
                THEN <<<<"POOR LIFESTYLE METRICS", 0>>>>
                ELSE <<>>)
    IN  WithDefault(WithSummary(recommendations, risk_level))

\* The local variables of calculate_overall_risk up to the classification.
OverallRiskLocals(db, athlete_id, target_date) ==
    The({
    LET acute_load == IF acwr_result = None THEN None
                      ELSE Some(Val(acwr_result).acute_load)
        chronic_load == IF acwr_result = None THEN None
                        ELSE Some(Val(acwr_result).chronic_load)
        acwr == IF acwr_result = None THEN None ELSE Some(Val(acwr_result).acwr)
        acwr_risk == AcwrRisk(acwr)
        monotony_risk == MonotonyRisk(monotony)
        z_score_risk == ZScoreRisk(z_scores.max_z_score_7d)
        base_risk ==
            QSum(<<Q(acwr_risk * 25, 100),
                   Q(monotony_risk * 15, 100),
                   Q(z_score_risk * 15, 100),
                   QMul(load_spike_score, Q(15, 100)),
                   QMul(QSub(QInt(100), recovery_score), Q(15, 100)),
                   QMul(QSub(QInt(100), lifestyle_score), Q(10, 100)),
                   QMul(injury_history_score, Q(5, 100))>>)
        age_mod == calculate_age_modifier(athlete_age)
        compound == QMul(QMul(Hundredths(sleep_mod), Hundredths(stress_mod)),
                         QMul(Hundredths(injury_recency_mod), Hundredths(age_mod)))
    IN  IF IsRaised(athlete_age) THEN Raised
        ELSE The({Returned(
             [acute_load |-> acute_load, chronic_load |-> chronic_load,
              acwr |-> acwr, load_spike_score |-> load_spike_score,
              recovery_score |-> recovery_score,
              lifestyle_score |-> lifestyle_score,
              injury_history_score |-> injury_history_score,
              monotony |-> monotony, strain |-> strain,
              current_z |-> z_scores.current_z_score,
              max_z_7d |-> z_scores.max_z_score_7d,
              acwr_risk |-> acwr_risk, monotony_risk |-> monotony_risk,
              z_score_risk |-> z_score_risk, base_risk |-> base_risk,
              sleep_mod |-> sleep_mod, stress_mod |-> stress_mod,
              injury_recency_mod |-> injury_recency_mod, age_mod |-> age_mod,
              compound |-> compound, overall_risk |-> overall_risk,
              risk_level |-> RiskLevel(overall_risk)])
             : overall_risk \in {QMin(QInt(100), QMul(base_risk, compound))}})
    : athlete_age \in {AthleteAge(AthleteRow(db, athlete_id))},
      acwr_result \in {calculate_acwr(db, athlete_id, target_date,
                                      ACUTE_WINDOW, CHRONIC_WINDOW)},
      load_spike_score \in {calculate_load_spike_score(db, athlete_id,
                                target_date, SPIKE_LOOKBACK)},
      recovery_score \in {calculate_recovery_score(db, athlete_id, target_date,
                                                   RECOVERY_LOOKBACK)},
      lifestyle_score \in {calculate_lifestyle_score(db, athlete_id,
                               target_date, LIFESTYLE_LOOKBACK)},
      injury_history_score \in {calculate_injury_history_score(db, athlete_id,
                                    target_date, INJURY_LOOKBACK)},
      monotony \in {calculate_training_monotony(db, athlete_id, target_date,
                                                MONOTONY_LOOKBACK)},
      strain \in {calculate_training_strain(db, athlete_id, target_date,
                                            MONOTONY_LOOKBACK)},
      z_scores \in {calculate_z_score_spike(db, athlete_id, target_date,
                                            ZSCORE_LOOKBACK)},
      sleep_mod \in {calculate_sleep_modifier(db, athlete_id, target_date,
                                              MODIFIER_LOOKBACK)},
      stress_mod \in {calculate_stress_modifier(db, athlete_id, target_date,
                                                MODIFIER_LOOKBACK)},
      injury_recency_mod \in {calculate_injury_recency_modifier(db,
                                  athlete_id, target_date)}})

\* round(x, 2) if x else None
RoundOrNone(x) == IF QTruthy(x) THEN Some(Round2(Val(x))) ELSE None

\* The dict calculate_overall_risk returns from its local variables,
\* numbers in hundredths.
ReturnedDict(locals) ==
    LET l == Val(locals)
    IN  IF IsRaised(locals) THEN Raised
        ELSE Returned(
             [overall_risk_score |-> Round2(l.overall_risk),
              risk_level |-> l.risk_level,
              acwr |-> RoundOrNone(l.acwr),
              acute_load |-> RoundOrNone(l.acute_load),
              chronic_load |-> RoundOrNone(l.chronic_load),
              load_spike_score |-> Round2(l.load_spike_score),
              recovery_score |-> Round2(l.recovery_score),
              lifestyle_score |-> Round2(l.lifestyle_score),
              injury_history_score |-> Round2(l.injury_history_score),
              training_monotony |-> IF Truthy(l.monotony) THEN l.monotony ELSE None,
              training_strain |-> IF Truthy(l.strain) THEN l.strain ELSE None,
              current_z_score |-> l.current_z,
              max_z_score_7d |-> l.max_z_7d,
              sleep_modifier |-> l.sleep_mod,
              stress_modifier |-> l.stress_mod,
              injury_recency_modifier |-> l.injury_recency_mod,
              age_modifier |-> l.age_mod,
              compound_multiplier |->
                  RoundedCompound(l.sleep_mod, l.stress_mod,
                                  l.injury_recency_mod, l.age_mod),
              recommendations |->
                  generate_enhanced_recommendations(l.acwr, l.monotony, l.strain,
                      l.current_z, l.max_z_7d, l.load_spike_score,
                      l.recovery_score, l.lifestyle_score,
                      l.injury_history_score, l.sleep_mod, l.stress_mod,
                      l.injury_recency_mod, l.age_mod, l.risk_level)])

calculate_overall_risk(db, athlete_id, target_date) ==
    ReturnedDict(OverallRiskLocals(db, athlete_id, target_date))

(***************************************************************************)
(* RecoveryPredictor.  Days are integers; the modifiers are doubles, since *)
(* int() truncates their products.                                         *)
(***************************************************************************)
Baseline(min, typical, max) == [min |-> min, typical |-> typical, max |-> max]

RECOVERY_BASELINES ==
    (Str_muscle_strain_grade1 :> Baseline(7, 10, 14))
    @@ (Str_muscle_strain_grade2 :> Baseline(14, 21, 28))
    @@ (Str_muscle_strain_grade3 :> Baseline(28, 42, 90))
    @@ (Str_ligament_sprain_grade1 :> Baseline(7, 14, 21))
    @@ (Str_ligament_sprain_grade2 :> Baseline(21, 35, 56))
    @@ (Str_ligament_sprain_grade3 :> Baseline(90, 180, 365))
    @@ (Str_tendinopathy :> Baseline(21, 60, 90))
    @@ (Str_tendon_rupture :> Baseline(90, 180, 365))
    @@ (Str_stress_reaction :> Baseline(14, 28, 42))
    @@ (Str_stress_fracture :> Baseline(42, 84, 120))
    @@ (Str_bone_fracture :> Baseline(42, 90, 180))
    @@ (Str_cartilage_damage :> Baseline(28, 90, 180))
    @@ (Str_meniscus_tear :> Baseline(21, 42, 90))
    @@ (Str_contusion :> Baseline(3, 7, 14))
    @@ (Str_laceration :> Baseline(7, 14, 21))
    @@ (Str_other :> Baseline(7, 21, 42))

SEVERITY_MULTIPLIERS ==
    (Str_minor :> DoubleOf(8, 10))
    @@ (Str_mild :> DoubleOf(9, 10))
    @@ (Str_moderate :> DoubleOf(10, 10))
    @@ (Str_severe :> DoubleOf(15, 10))
    @@ (Str_catastrophic :> DoubleOf(20, 10))

\* The cascade without the direct match and without the grades.
normalize_by_family(injury_type) ==
    LET injury_lower == replace(lower(injury_type), " ", "_")
    IN  IF Contains(Str_strain, injury_lower) THEN Str_muscle_strain_grade1
        ELSE IF Contains(Str_sprain, injury_lower)
        THEN Str_ligament_sprain_grade1
        ELSE IF Contains(Str_tendon, injury_lower) THEN Str_tendinopathy
        ELSE IF Contains(Str_fracture, injury_lower) THEN Str_bone_fracture
        ELSE IF Contains(Str_contusion, injury_lower) THEN Str_contusion
        ELSE Str_other

_normalize_injury_type(injury_type) ==
    LET injury_lower == replace(lower(injury_type), " ", "_")
    IN  IF injury_lower \in DOMAIN RECOVERY_BASELINES THEN injury_lower
        ELSE IF Contains(Str_strain, injury_lower)
        THEN (IF Contains(Str_grade_3, injury_lower)
                 \/ Contains(Str_severe, injury_lower)
              THEN Str_muscle_strain_grade3
              ELSE IF Contains(Str_grade_2, injury_lower)
                      \/ Contains(Str_moderate, injury_lower)
              THEN Str_muscle_strain_grade2
              ELSE Str_muscle_strain_grade1)
        ELSE IF Contains(Str_sprain, injury_lower)
        THEN (IF Contains(Str_grade_3, injury_lower)
                 \/ Contains(Str_severe, injury_lower)
              THEN Str_ligament_sprain_grade3
              ELSE IF Contains(Str_grade_2, injury_lower)
                      \/ Contains(Str_moderate, injury_lower)
              THEN Str_ligament_sprain_grade2
              ELSE Str_ligament_sprain_grade1)
        ELSE IF Contains(Str_tendon, injury_lower)
        THEN (IF Contains(Str_rupture, injury_lower)
                 \/ Contains(Str_tear, injury_lower)
              THEN Str_tendon_rupture
              ELSE Str_tendinopathy)
        ELSE IF Contains(Str_fracture, injury_lower)
        THEN (IF Contains(Str_stress, injury_lower)
              THEN Str_stress_fracture
              ELSE Str_bone_fracture)
        ELSE IF Contains(Str_contusion, injury_lower)
                \/ Contains(Str_bruise, injury_lower)
        THEN Str_contusion
        ELSE Str_other

\* The age bands with their upper edges inside.
RecoveryAgeFactorClosed(athlete_age) ==
    IF ~Truthy(athlete_age) THEN DoubleOf(10, 10)
    ELSE IF Val(athlete_age) <= 25 THEN DoubleOf(10, 10)
    ELSE IF Val(athlete_age) <= 30 THEN DoubleOf(11, 10)
    ELSE IF Val(athlete_age) <= 35 THEN DoubleOf(12, 10)
    ELSE DoubleOf(13, 10)

\* age_mod of predict_recovery_time; 1.0 where the code applies none.
RecoveryAgeFactor(athlete_age) ==
    IF ~Truthy(athlete_age) THEN DoubleOf(10, 10)
    ELSE IF Val(athlete_age) < 25 THEN DoubleOf(10, 10)
    ELSE IF Val(athlete_age) < 30 THEN DoubleOf(11, 10)
    ELSE IF Val(athlete_age) < 35 THEN DoubleOf(12, 10)
    ELSE DoubleOf(13, 10)

\* The severity table upside down.
SeverityMultiplierReversed(severity_lower) ==
    IF severity_lower = Str_minor THEN DoubleOf(20, 10)
    ELSE IF severity_lower = Str_mild THEN DoubleOf(15, 10)
    ELSE IF severity_lower = Str_severe THEN DoubleOf(9, 10)
    ELSE IF severity_lower = Str_catastrophic THEN DoubleOf(8, 10)
    ELSE DoubleOf(10, 10)

\* SEVERITY_MULTIPLIERS.get(severity_lower, 1.0)
SeverityMultiplier(severity_lower) ==
    IF severity_lower \in DOMAIN SEVERITY_MULTIPLIERS
    THEN SEVERITY_MULTIPLIERS[severity_lower]
    ELSE DoubleOf(10, 10)

\* Python truthiness of an optional string: None and "" are false.
StrTruthy(o) == o # None /\ Val(o) # <<>>

RecoverySeverityFactor(severity) ==
    IF StrTruthy(severity) THEN SeverityMultiplier(lower(Val(severity)))
    ELSE DoubleOf(10, 10)

PreviousInjuryFactor(previous_injury_same_area, days_since_previous_injury) ==
    IF previous_injury_same_area
    THEN (IF Truthy(days_since_previous_injury)
             /\ Val(days_since_previous_injury) < 180
          THEN DoubleOf(15, 10)
          ELSE DoubleOf(13, 10))
    ELSE DoubleOf(10, 10)

\* total_modifier: 1.0, times each modifier the code applies, in its order.
TotalModifier(severity, athlete_age, previous_injury_same_area, days_since_previous_injury) ==
    The({The({IF previous_injury_same_area
              THEN DoubleMul(graded,
                       PreviousInjuryFactor(previous_injury_same_area,
                                            days_since_previous_injury))
              ELSE graded
              : graded \in {IF StrTruthy(severity)
                               /\ lower(Val(severity))
                                      \in DOMAIN SEVERITY_MULTIPLIERS
                            THEN DoubleMul(aged,
                                           RecoverySeverityFactor(severity))
                            ELSE aged}})
         : aged \in {IF Truthy(athlete_age)
                     THEN DoubleMul(DoubleOf(10, 10),
                                    RecoveryAgeFactor(athlete_age))
                     ELSE DoubleOf(10, 10)}})

\* int(days * total_modifier)
ScaledDays(days, total_modifier) ==
    DoubleTrunc(DoubleMul(DoubleOf(days, 1), total_modifier))

\* The date days before today.
ReturnDateBefore(today, days) == today - days

\* date.today() + timedelta(days=days)
ReturnDate(today, days) == today + days

\* today holds the three readings of date.today(), in the order of the
\* returned dict.  Factors and the total are reported in hundredths.
predict_recovery_time(injury_type, severity, athlete_age, previous_injury_same_area, days_since_previous_injury, today) ==
    The({The({[min_recovery_days |-> min_days,
               typical_recovery_days |-> typical_days,
               max_recovery_days |-> max_days,
               expected_return_date_min |-> ReturnDate(today[1], min_days),
               expected_return_date_typical |->
                   ReturnDate(today[2], typical_days),
               expected_return_date_max |-> ReturnDate(today[3], max_days),
               modifiers_applied |->
                   [total_multiplier |-> DoubleRound2(total_modifier),
                    age_factor |->
                        DoubleRound2(RecoveryAgeFactor(athlete_age)),
                    severity_factor |->
                        DoubleRound2(RecoverySeverityFactor(severity)),
                    previous_injury_factor |->
                        DoubleRound2(PreviousInjuryFactor(
                            previous_injury_same_area,
                            days_since_previous_injury))]]
              : min_days \in {ScaledDays(baseline.min, total_modifier)},
                typical_days \in {ScaledDays(baseline.typical, total_modifier)},
                max_days \in {ScaledDays(baseline.max, total_modifier)}})
         : baseline \in {LET normalized == _normalize_injury_type(injury_type)
                         IN  IF normalized \notin DOMAIN RECOVERY_BASELINES
                             THEN RECOVERY_BASELINES[Str_other]
                             ELSE RECOVERY_BASELINES[normalized]},
           total_modifier \in {TotalModifier(severity, athlete_age,
                                   previous_injury_same_area,
                                   days_since_previous_injury)}})

\* The injuries of the athlete whose id is injury_id.
InjuryByAthlete(db, injury_id) ==
    {r \in db.injury_history : r.athlete_id = injury_id}

\* db.query(InjuryHistory).filter(InjuryHistory.id == injury_id)
InjuryById(db, injury_id) == {r \in db.injury_history : r.id = injury_id}

\* The earlier injuries of the same athlete to the same body part.
EarlierInjuries(db, injury) ==
    {r \in db.injury_history :
        /\ r.athlete_id = injury.athlete_id
        /\ r.body_part = injury.body_part
        /\ r.injury_date < injury.injury_date
        /\ r.id # injury.id}

\* order_by(injury_date.desc()).first(): a row, of those in rows, with the
\* latest date.  Only its injury_date is read, which is the same whichever
\* of the rows with that date comes first.
LatestInjury(rows) ==
    CHOOSE r \in rows : \A x \in rows : x.injury_date <= r.injury_date

\* The dict of the not-found answer.
InjuryNotFound == [error |-> "Injury not found"]

predict_recovery_for_athlete_injury(db, injury_id, today) ==
    IF InjuryById(db, injury_id) = {} THEN InjuryNotFound
    ELSE The({
         LET athlete_age == AthleteAge(AthleteRow(db, injury.athlete_id))
             previous_injury_same_area == previous_injuries # {}
             days_since_previous ==
                 IF previous_injury_same_area
                 THEN Some(injury.injury_date
                           - LatestInjury(previous_injuries).injury_date)
                 ELSE None
         IN  predict_recovery_time(injury.injury_type, injury.severity,
                                   athlete_age, previous_injury_same_area,
                                   days_since_previous, today)
             @@ [injury_id |-> injury.id, athlete_id |-> injury.athlete_id,
                 injury_date |-> injury.injury_date,
                 body_part |-> injury.body_part,
                 injury_type |-> injury.injury_type]
         : injury \in InjuryById(db, injury_id),
           previous_injuries \in
               {EarlierInjuries(db, The(InjuryById(db, injury_id)))}})

\* GET /injuries/{injury_id}/recovery-prediction: the status and the body.
recovery_prediction(db, injury_id, today) ==
    The({IF "error" \in DOMAIN answer
         THEN [status |-> 404, detail |-> answer.error]
         ELSE [status |-> 200, body |-> answer]
         : answer \in {predict_recovery_for_athlete_injury(db, injury_id,
                                                            today)}})

(***************************************************************************)
(* The requests.                                                           *)
(***************************************************************************)
MaxAthletes == 1
MaxWeeks == 3
MaxTreatments == 1
MaxLifestyle == 1
MaxInjuries == 1
MaxUploads == 4
MaxCalls == 3

AthleteIds == 1..MaxAthletes
Ages == {None, Some(32)}
TargetDates == {200, 214}
FirstLoadDate(athlete_id) == 194

\* One uploaded file of daily loads: a week, a day without a row being None.
ZeroWeek == [i \in 1..7 |-> Some(0)]
FlatWeek == [i \in 1..7 |-> Some(200)]
WaveWeek == [i \in 1..7 |-> IF i % 2 = 1 THEN Some(100) ELSE Some(300)]
ShortWeek == [i \in 1..7 |-> IF i < 6 THEN None ELSE Some(100 * (i - 4))]
LoadFiles == {ZeroWeek, FlatWeek, WaveWeek, ShortWeek}

TreatmentDates == {200, 214}
TreatmentSeverities == {Some(Str_minor)}

\* sleep_hours, sleep_quality, nutrition_score, stress_level
LogFields(h, q, n, st) ==
    [sleep_hours |-> h, sleep_quality |-> q, nutrition_score |-> n,
     stress_level |-> st]
LifestyleInputs ==
    {LogFields(Some(QInt(8)), Some(8), Some(8), Some(2)),
     LogFields(Some(QInt(5)), Some(3), Some(4), Some(9)),
     LogFields(Some(QInt(8)), Some(100), Some(100), Some(1))}
LifestyleDates == {214}

InjuryDates == {34, 123, 204}
InjurySeverities == {Some(Str_catastrophic)}

DB == [athletes |-> athletes, training_loads |-> training_loads,
       treatments |-> treatments, lifestyle_logs |-> lifestyle_logs,
       injury_history |-> injury_history,
       risk_assessments |-> risk_assessments]

stores == <<athletes, training_loads, treatments, lifestyle_logs,
            injury_history, risk_assessments>>
vars == <<athletes, training_loads, treatments, lifestyle_logs,
          injury_history, risk_assessments, calls, prediction,
          derived_load>>

Init ==
    /\ athletes = {} /\ training_loads = {} /\ treatments = {}
    /\ lifestyle_logs = {} /\ injury_history = {} /\ risk_assessments = {}
    /\ calls = <<>>
    /\ prediction = None
    /\ derived_load = None

\* The next primary key of a table.
NextId(rows) == Cardinality(rows) + 1

AthleteExists(athlete_id) == \E a \in athletes : a.id = athlete_id

\* The weeks of loads stored for athlete_id: every uploaded file holds the
\* rows of one week.
WeeksStored(athlete_id) ==
    Cardinality({(r.date - FirstLoadDate(athlete_id)) \div 7 :
                    r \in {x \in training_loads : x.athlete_id = athlete_id}})

\* The first date of the week after the loads stored for athlete_id.
NextLoadDate(athlete_id) ==
    FirstLoadDate(athlete_id) + 7 * WeeksStored(athlete_id)

\* The files and records uploaded so far.
RECURSIVE LoadWeeks(_)
LoadWeeks(athlete_id) ==
    IF athlete_id = 0 THEN 0
    ELSE WeeksStored(athlete_id) + LoadWeeks(athlete_id - 1)
Uploads ==
    LoadWeeks(MaxAthletes) + Cardinality(treatments)
    + Cardinality(lifestyle_logs) + Cardinality(injury_history)

create_athlete(age) ==
    /\ Cardinality(athletes) < MaxAthletes
    /\ athletes' = athletes \cup {[id |-> NextId(athletes), age |-> age]}
    /\ calls' = <<>>
    /\ UNCHANGED <<training_loads, treatments, lifestyle_logs, injury_history,
                   risk_assessments>>

\* A file of one week of rows for athlete_id, the week after the athlete's
\* last stored one.
upload_training_loads(athlete_id, file) ==
    LET first == NextLoadDate(athlete_id)
        days == {i \in 1..Len(file) : file[i] # None}
        Rank(i) == Cardinality({j \in days : j <= i})
    IN  /\ AthleteExists(athlete_id)
        /\ Uploads < MaxUploads
        /\ first + Len(file) - 1 <= FirstLoadDate(athlete_id) + 7 * MaxWeeks - 1
        /\ training_loads' = training_loads \cup
               {[id |-> Cardinality(training_loads) + Rank(i),
                 athlete_id |-> athlete_id, date |-> first + i - 1,
                 training_load |-> Val(file[i])] : i \in days}
        /\ calls' = <<>>
        /\ UNCHANGED <<athletes, treatments, lifestyle_logs, injury_history,
                       risk_assessments>>

upload_treatments(athlete_id, date, severity) ==
    /\ Cardinality(treatments) < MaxTreatments
    /\ Uploads < MaxUploads
    /\ treatments' = treatments \cup
           {[id |-> NextId(treatments), athlete_id |-> athlete_id,
             date |-> date, severity |-> severity]}
    /\ calls' = <<>>
    /\ UNCHANGED <<athletes, training_loads, lifestyle_logs, injury_history,
                   risk_assessments>>

create_lifestyle_log(athlete_id, date, log) ==
    /\ AthleteExists(athlete_id)
    /\ Cardinality(lifestyle_logs) < MaxLifestyle
    /\ Uploads < MaxUploads
    /\ lifestyle_logs' = lifestyle_logs \cup
           {[id |-> NextId(lifestyle_logs), athlete_id |-> athlete_id,
             date |-> date, sleep_hours |-> log.sleep_hours,
             sleep_quality |-> log.sleep_quality,
             nutrition_score |-> log.nutrition_score,
             stress_level |-> log.stress_level]}
    /\ calls' = <<>>
    /\ UNCHANGED <<athletes, training_loads, treatments, injury_history,
                   risk_assessments>>

upload_injury_history(athlete_id, injury_date, injury_type, body_part, severity) ==
    /\ Cardinality(injury_history) < MaxInjuries
    /\ Uploads < MaxUploads
    /\ injury_history' = injury_history \cup
           {[id |-> NextId(injury_history), athlete_id |-> athlete_id,
             injury_date |-> injury_date, injury_type |-> injury_type,
             body_part |-> body_part, severity |-> severity]}
    /\ calls' = <<>>
    /\ UNCHANGED <<athletes, training_loads, treatments, lifestyle_logs,
                   risk_assessments>>

\* A scoring call that also stores its answer as a RiskAssessment, as the
\* endpoint calculate_athlete_risk does after calling the engine.
CalculateAndStore(athlete_id, target_date) ==
    /\ Len(calls) < MaxCalls
    /\ calls' = Append(calls,
           LET locals == OverallRiskLocals(DB, athlete_id, target_date)
           IN  [athlete_id |-> athlete_id, target_date |-> target_date,
                locals |-> locals, value |-> ReturnedDict(locals)])
    /\ risk_assessments' = risk_assessments \cup
           {[id |-> NextId(risk_assessments), athlete_id |-> athlete_id,
             date |-> target_date]}
    /\ UNCHANGED <<athletes, training_loads, treatments, lifestyle_logs,
                   injury_history>>

\* A call of AnalyticsEngine.calculate_overall_risk and its answer.
CalculateOverallRisk(athlete_id, target_date) ==
    /\ Len(calls) < MaxCalls
    /\ \E locals \in {OverallRiskLocals(DB, athlete_id, target_date)} :
           calls' = Append(calls,
               [athlete_id |-> athlete_id, target_date |-> target_date,
                locals |-> locals, value |-> ReturnedDict(locals)])
    /\ UNCHANGED stores

\* The requests to the engine and the stores; no prediction is requested.
Next ==
    /\ \/ \E age \in Ages : create_athlete(age)
       \/ \E a \in AthleteIds, file \in LoadFiles :
              upload_training_loads(a, file)
       \/ \E a \in AthleteIds, d \in TreatmentDates,
              sev \in TreatmentSeverities : upload_treatments(a, d, sev)
       \/ \E a \in AthleteIds, d \in LifestyleDates, log \in LifestyleInputs :
              create_lifestyle_log(a, d, log)
       \/ \E a \in AthleteIds, d \in InjuryDates, sev \in InjurySeverities :
              upload_injury_history(a, d, Str_Concussion, Str_knee, sev)
       \/ \E a \in AthleteIds, t \in TargetDates : CalculateOverallRisk(a, t)
    /\ UNCHANGED <<prediction, derived_load>>

Spec == Init /\ [][Next]_vars

(***************************************************************************)
(* The requests to the recovery predictor: predict_recovery_time is a      *)
(* function of its arguments and of the clock, so a behaviour is one       *)
(* request and its answer.                                                 *)
(***************************************************************************)
InjuryTypes ==
    {Str_muscle_strain_grade2,
     Str_Grade_2_Hamstring_Strain,
     \* "Severe Ankle Sprain"
     <<"S", "e", "v", "e", "r", "e", " ", "A", "n", "k", "l", "e", " ", "S",
       "p", "r", "a", "i", "n">>,
     \* "Achilles Tendon Tear"
     <<"A", "c", "h", "i", "l", "l", "e", "s", " ", "T", "e", "n", "d", "o",
       "n", " ", "T", "e", "a", "r">>,
     \* "stress fracture"
     <<"s", "t", "r", "e", "s", "s", " ", "f", "r", "a", "c", "t", "u", "r",
       "e">>,
     Str_Concussion}

RecoverySeverities ==
    {None, Some(<<>>), Some(Str_minor), Some(Str_mild), Some(Str_moderate),
     Some(Str_severe), Some(Str_catastrophic),
     \* "Severe"
     Some(<<"S", "e", "v", "e", "r", "e">>),
     \* "grade 2"
     Some(<<"g", "r", "a", "d", "e", " ", "2">>)}

RecoveryAges == {None, Some(-1), Some(0), Some(24), Some(25), Some(29),
                 Some(30), Some(34), Some(35), Some(60)}

\* previous_injury_same_area, days_since_previous_injury
PreviousInjuries ==
    {<<FALSE, None>>, <<FALSE, Some(10)>>, <<TRUE, None>>, <<TRUE, Some(0)>>,
     <<TRUE, Some(179)>>, <<TRUE, Some(180)>>}

\* The readings of date.today() during a call: the day may end between two.
Clocks == {<<300, 300, 300>>, <<300, 301, 301>>, <<300, 300, 301>>}

RecoveryRequests ==
    [injury_type : InjuryTypes, severity : RecoverySeverities,
     athlete_age : RecoveryAges, previous : PreviousInjuries, today : Clocks]

Predict(request) ==
    predict_recovery_time(request.injury_type, request.severity,
                          request.athlete_age, request.previous[1],
                          request.previous[2], request.today)

RecoveryInit ==
    /\ athletes = {} /\ training_loads = {} /\ treatments = {}
    /\ lifestyle_logs = {} /\ injury_history = {} /\ risk_assessments = {}
    /\ calls = <<>>
    /\ prediction \in {Some([request |-> r, value |-> None]) :
                          r \in RecoveryRequests}
    /\ derived_load = None

PredictRecoveryTime ==
    /\ prediction # None
    /\ Val(prediction).value = None
    /\ prediction' = Some([request |-> Val(prediction).request,
                           value |-> Some(Predict(Val(prediction).request))])
    /\ UNCHANGED <<stores, calls, derived_load>>

RecoveryNext == PredictRecoveryTime

RecoverySpec == RecoveryInit /\ [][RecoveryNext]_vars

(***************************************************************************)
(* The recovery prediction of a stored injury.  The state starts with the  *)
(* athletes and the injuries of some earlier uploads; prediction holds the *)
(* request of the endpoint and its answer.                                 *)
(***************************************************************************)
MaxInjuryRows == 3

StoredInjuryDates == {110, 200, 290}

\* injury_type and severity of a stored injury: no category and no
\* severity, or a category and an unrecognised severity.
StoredInjuryKinds ==
    {<<Str_Concussion, None>>,
     <<Str_Grade_2_Hamstring_Strain, Some(<<"g", "r", "a", "d", "e", " ", "2">>)>>}

StoredInjuries ==
    [injury_date : StoredInjuryDates, kind : StoredInjuryKinds,
     body_part : {Str_knee, Str_ankle}]

\* The injury_history table after the rows of uploaded, in their order, were
\* stored for athlete 1.
InjuryTable(uploaded) ==
    {[id |-> i, athlete_id |-> 1, injury_date |-> uploaded[i].injury_date,
      injury_type |-> uploaded[i].kind[1], body_part |-> uploaded[i].body_part,
      severity |-> uploaded[i].kind[2]] : i \in 1..Len(uploaded)}

AthleteTables == {{}} \cup {{[id |-> 1, age |-> age]} : age \in Ages}

InjuryInit ==
    /\ athletes \in AthleteTables
    /\ injury_history \in
           {InjuryTable(uploaded) :
               uploaded \in UNION {[1..n -> StoredInjuries] :
                                      n \in 0..MaxInjuryRows}}
    /\ training_loads = {} /\ treatments = {} /\ lifestyle_logs = {}
    /\ risk_assessments = {}
    /\ calls = <<>>
    /\ prediction = None
    /\ derived_load = None

GetRecoveryPrediction(injury_id, today) ==
    /\ prediction = None
    /\ prediction' = Some([request |-> [injury_id |-> injury_id,
                                         today |-> today],
                           value |-> Some(recovery_prediction(DB, injury_id,
                                                              today))])
    /\ UNCHANGED <<stores, calls, derived_load>>

InjuryNext ==
    \E injury_id \in 1..(MaxInjuryRows + 1) :
        GetRecoveryPrediction(injury_id, <<300, 300, 300>>)

InjurySpec == InjuryInit /\ [][InjuryNext]_vars

(***************************************************************************)
(* The engine on the load history of one athlete: a behaviour starts from  *)
(* a stored history of HistoryWeeks weeks of daily loads, the last one     *)
(* ending on the latest target date, and asks for one risk calculation.    *)
(***************************************************************************)
HistoryWeeks == 4
HistoryEnd == 214
HistoryTargets == {HistoryEnd, HistoryEnd - 3}

SteadyWeek == [i \in 1..7 |-> Some(300)]
LightWeek == [i \in 1..7 |-> IF i = 7 THEN Some(11) ELSE Some(10)]
NoWeek == [i \in 1..7 |-> None]
HistoryFiles == {ZeroWeek, SteadyWeek, LightWeek, WaveWeek, NoWeek}

\* The rows of a history: weeks[w][i] is the load of day i of week w.
HistoryDays(weeks) ==
    {<<w, i>> \in (1..HistoryWeeks) \X (1..7) : weeks[w][i] # None}
HistoryDate(w, i) == HistoryEnd - 7 * (HistoryWeeks - w) - (7 - i)
HistoryRows(weeks) ==
    {[id |-> Cardinality({e \in HistoryDays(weeks) :
                             HistoryDate(e[1], e[2]) <= HistoryDate(d[1], d[2])}),
      athlete_id |-> 1, date |-> HistoryDate(d[1], d[2]),
      training_load |-> Val(weeks[d[1]][d[2]])] : d \in HistoryDays(weeks)}

HistoryInit ==
    /\ athletes = {[id |-> 1, age |-> Some(32)]}
    /\ training_loads \in
           {HistoryRows(weeks) : weeks \in [1..HistoryWeeks -> HistoryFiles]}
    /\ treatments = {} /\ lifestyle_logs = {} /\ injury_history = {}
    /\ risk_assessments = {}
    /\ calls = <<>>
    /\ prediction = None
    /\ derived_load = None

HistoryNext ==
    /\ calls = <<>>
    /\ \E t \in HistoryTargets : CalculateOverallRisk(1, t)
    /\ UNCHANGED <<prediction, derived_load>>

HistorySpec == HistoryInit /\ [][HistoryNext]_vars

(***************************************************************************)
(* The engine on the profile of one athlete: a behaviour starts from the   *)
(* stored records of an athlete of some age (a week of loads, a lifestyle  *)
(* log, treatments, an earlier injury, every field within its documented   *)
(* range) and asks for one risk calculation on ProfileDate.                *)
(***************************************************************************)
ProfileDate == 214
ProfileAges == {None, Some(22), Some(27), Some(32), Some(40)}
RestWeek == [i \in 1..7 |-> IF i % 3 = 0 THEN Some(0) ELSE Some(150 * (i % 3))]
ProfileFiles == {NoWeek, ZeroWeek, WaveWeek, RestWeek, LightWeek}
ProfileLogs ==
    {LogFields(Some(QInt(8)), Some(8), Some(8), Some(2)),
     LogFields(Some(QInt(5)), Some(3), Some(4), Some(9)),
     LogFields(Some(Q(13, 2)), Some(5), Some(5), Some(6)),
     LogFields(Some(QInt(10)), Some(10), Some(10), Some(1))}
ProfileInjuryAges == {5, 20, 45, 80}
ProfileTreatments == {0, 3}

ProfileLoadRows(file) ==
    {r \in HistoryRows([w \in 1..HistoryWeeks |->
                           IF w = HistoryWeeks THEN file ELSE NoWeek]) : TRUE}
ProfileLogRows(log) ==
    {[id |-> 1, athlete_id |-> 1, date |-> ProfileDate,
      sleep_hours |-> log.sleep_hours, sleep_quality |-> log.sleep_quality,
      nutrition_score |-> log.nutrition_score,
      stress_level |-> log.stress_level]}
ProfileInjuryRows(days) ==
    {[id |-> 1, athlete_id |-> 1, injury_date |-> ProfileDate - days,
      injury_type |-> Str_Concussion, body_part |-> Str_knee,
      severity |-> Some(Str_moderate)]}
ProfileTreatmentRows(n) ==
    {[id |-> i, athlete_id |-> 1, date |-> ProfileDate - 2 * i,
      severity |-> Some(Str_minor)] : i \in 1..n}

ProfileInit ==
    /\ athletes \in {{[id |-> 1, age |-> age]} : age \in ProfileAges}
    /\ training_loads \in {ProfileLoadRows(file) : file \in ProfileFiles}
    /\ lifestyle_logs \in
           {{}} \cup {ProfileLogRows(log) : log \in ProfileLogs}
    /\ injury_history \in
           {{}} \cup {ProfileInjuryRows(days) : days \in ProfileInjuryAges}
    /\ treatments \in {ProfileTreatmentRows(n) : n \in ProfileTreatments}
    /\ risk_assessments = {}
    /\ calls = <<>>
    /\ prediction = None
    /\ derived_load = None

ProfileNext ==
    /\ calls = <<>>
    /\ CalculateOverallRisk(1, ProfileDate)
    /\ UNCHANGED <<prediction, derived_load>>

ProfileSpec == ProfileInit /\ [][ProfileNext]_vars

(***************************************************************************)
(* The wellness metrics and the risk modifiers of one athlete on           *)
(* ProfileDate: either treatments, or lifestyle logs with absent fields,   *)
(* or injuries around the band edges of the recency modifier.              *)
(***************************************************************************)
WellnessAges ==
    {None, Some(0), Some(24), Some(25), Some(29), Some(30), Some(34),
     Some(35), Some(60)}
WellnessTreatmentCounts == {0, 1, 3, 4, 8, 9, 21}
WellnessSevereCounts == {0, 1, 4, 5}
WellnessLogs ==
    {LogFields(None, None, None, None),
     LogFields(Some(QInt(0)), None, None, None),
     LogFields(Some(QInt(8)), None, None, None),
     LogFields(Some(Q(11, 2)), None, None, Some(8)),
     LogFields(Some(Q(13, 2)), Some(7), None, Some(6)),
     LogFields(Some(QInt(11)), None, Some(6), Some(3)),
     LogFields(Some(QInt(10)), Some(4), Some(9), None),
     LogFields(None, Some(6), Some(5), Some(7))}
WellnessInjuryAges == {0, 13, 14, 29, 30, 59, 60, 90, 91}

\* n treatments on the dates ProfileDate - 14 .. ProfileDate, the first k of
\* them severe or moderate, the others minor or without a severity.
WellnessTreatmentRows(n, k) ==
    {[id |-> i, athlete_id |-> 1, date |-> ProfileDate - (i % 15),
      severity |-> IF i <= k
                   THEN (IF i % 2 = 0 THEN Some(Str_moderate)
                         ELSE Some(Str_severe))
                   ELSE IF i % 3 = 0 THEN None ELSE Some(Str_minor)]
     : i \in 1..n}

\* One log on ProfileDate and, with a second log, one three days earlier.
WellnessLogRows(logs) ==
    {[id |-> i, athlete_id |-> 1, date |-> ProfileDate - 3 * (i - 1),
      sleep_hours |-> logs[i].sleep_hours,
      sleep_quality |-> logs[i].sleep_quality,
      nutrition_score |-> logs[i].nutrition_score,
      stress_level |-> logs[i].stress_level] : i \in 1..Len(logs)}

WellnessInjuryRows(ages) ==
    {[id |-> days + 1, athlete_id |-> 1, injury_date |-> ProfileDate - days,
      injury_type |-> Str_Concussion, body_part |-> Str_knee,
      severity |-> Some(Str_minor)] : days \in ages}

WellnessStores ==
    {[treatments |-> WellnessTreatmentRows(n, k), lifestyle_logs |-> {},
      injury_history |-> {}]
     : n \in WellnessTreatmentCounts,
       k \in WellnessSevereCounts}
    \cup
    {[treatments |-> {}, lifestyle_logs |-> WellnessLogRows(logs),
      injury_history |-> {}]
     : logs \in {<<a>> : a \in WellnessLogs}
                \cup {<<a, b>> : a \in WellnessLogs, b \in WellnessLogs}}
    \cup
    {[treatments |-> {}, lifestyle_logs |-> {},
      injury_history |-> WellnessInjuryRows(ages)]
     : ages \in {{a, b} : a \in WellnessInjuryAges, b \in WellnessInjuryAges}}

WellnessInit ==
    /\ athletes \in {{[id |-> 1, age |-> age]} : age \in WellnessAges}
    /\ \E s \in WellnessStores :
           /\ treatments = s.treatments
           /\ lifestyle_logs = s.lifestyle_logs
           /\ injury_history = s.injury_history
    /\ training_loads = {}
    /\ risk_assessments = {}
    /\ calls = <<>>
    /\ prediction = None
    /\ derived_load = None

WellnessNext ==
    /\ calls = <<>>
    /\ CalculateOverallRisk(1, ProfileDate)
    /\ UNCHANGED <<prediction, derived_load>>

WellnessSpec == WellnessInit /\ [][WellnessNext]_vars

(***************************************************************************)
(* The derived training load of a session.  The state starts with the      *)
(* metrics of the session; the one step computes the load.                 *)
(***************************************************************************)
KinexonDistances == {QInt(0), Q(1, 16), Q(25, 8), QInt(5), Q(-1, 16)}
KinexonAccelLoads == {QInt(0), Q(1, 16), Q(1, 4), QInt(100), Q(-1, 4)}
KinexonAverageSpeeds == {None, Some(QInt(0)), Some(Q(17, 16)), Some(QInt(4))}
KinexonMaxSpeeds ==
    {None, Some(QInt(0)), Some(Q(1, 16)), Some(Q(33, 2)), Some(QInt(15))}
KinexonMetrics ==
    [distance_miles : KinexonDistances,
     accumulated_accel_load : KinexonAccelLoads,
     average_speed_mph : KinexonAverageSpeeds,
     max_speed_mph : KinexonMaxSpeeds]

KinexonInit ==
    /\ athletes = {} /\ training_loads = {} /\ treatments = {}
    /\ lifestyle_logs = {} /\ injury_history = {} /\ risk_assessments = {}
    /\ calls = <<>>
    /\ prediction = None
    /\ derived_load \in {Some([metrics |-> m, value |-> None]) :
                            m \in KinexonMetrics}

CalculateTrainingLoad ==
    /\ derived_load # None
    /\ Val(derived_load).value = None
    /\ \E m \in {Val(derived_load).metrics} :
           derived_load' = Some([metrics |-> m,
               value |-> Some(calculate_training_load_from_kinexon(
                                  m.distance_miles, m.accumulated_accel_load,
                                  m.average_speed_mph, m.max_speed_mph))])
    /\ UNCHANGED <<stores, calls, prediction>>

KinexonNext == CalculateTrainingLoad

KinexonSpec == KinexonInit /\ [][KinexonNext]_vars

(***************************************************************************)
(* The category of an injury text.  The state starts with the text, one    *)
(* to three words joined by spaces; the one step normalises it.            *)
(***************************************************************************)
InjuryWords ==
    {Str_strain, Str_grade_2, Str_severe, Str_tendon, Str_rupture, Str_tear,
     Str_fracture, Str_stress, Str_contusion, Str_bruise, Str_knee,
     Str_laceration,
     <<"S", "p", "r", "a", "i", "n">>,
     <<"G", "r", "a", "d", "e", " ", "3">>,
     <<"M", "o", "d", "e", "r", "a", "t", "e">>,
     <<"m", "u", "s", "c", "l", "e">>,
     <<"g", "r", "a", "d", "e", "3">>,
     <<"M", "e", "n", "i", "s", "c", "u", "s">>}

\* " ".join(words)
RECURSIVE JoinWords(_)
JoinWords(words) ==
    IF Len(words) = 0 THEN <<>>
    ELSE IF Len(words) = 1 THEN words[1]
    ELSE words[1] \o <<" ">> \o JoinWords(Tail(words))

InjuryTexts ==
    {<<>>}
    \cup {JoinWords(<<a>>) : a \in InjuryWords}
    \cup {JoinWords(<<a, b>>) : a \in InjuryWords, b \in InjuryWords}
    \cup {JoinWords(<<first, a, b>>)
             : first \in {<<"m", "u", "s", "c", "l", "e">>, Str_strain},
               a \in InjuryWords, b \in InjuryWords}

NormalizeInit ==
    /\ athletes = {} /\ training_loads = {} /\ treatments = {}
    /\ lifestyle_logs = {} /\ injury_history = {} /\ risk_assessments = {}
    /\ calls = <<>>
    /\ derived_load = None
    /\ prediction \in {Some([request |-> [injury_type |-> text],
                              value |-> None]) : text \in InjuryTexts}

NormalizeInjuryType ==
    /\ prediction # None
    /\ Val(prediction).value = None
    /\ prediction' = Some([request |-> Val(prediction).request,
                           value |-> Some(_normalize_injury_type(
                               Val(prediction).request.injury_type))])
    /\ UNCHANGED <<stores, calls, derived_load>>

NormalizeNext == NormalizeInjuryType

NormalizeSpec == NormalizeInit /\ [][NormalizeNext]_vars

(***************************************************************************)
(* The stored risk assessments.  The state starts with two athletes        *)
(* without records; the steps are the two endpoints that calculate and     *)
(* store assessments, on one of two dates.                                 *)
(***************************************************************************)
MaxAssessments == 4
AssessmentDates == {214, 215}
AssessedAthletes == {[id |-> 1, age |-> Some(27)], [id |-> 2, age |-> None]}

\* models.RiskAssessment(athlete_id=..., date=..., **risk_data), once added
\* and committed.
Assessment(id, athlete_id, target_date, risk_data) ==
    [id |-> id, athlete_id |-> athlete_id, date |-> target_date,
     risk_data |-> risk_data]

\* POST /athletes/{athlete_id}/calculate-risk: 404 for an unknown athlete,
\* and a server error without a row if the engine raises.
calculate_athlete_risk(athlete_id, target_date) ==
    /\ Cardinality(risk_assessments) < MaxAssessments
    /\ IF \A a \in athletes : a.id # athlete_id
       THEN UNCHANGED <<risk_assessments, calls>>
       ELSE \E risk_data \in {calculate_overall_risk(DB, athlete_id,
                                                     target_date)} :
                IF IsRaised(risk_data)
                THEN UNCHANGED <<risk_assessments, calls>>
                ELSE /\ risk_assessments' = risk_assessments \cup
                            {Assessment(NextId(risk_assessments), athlete_id,
                                        target_date, Val(risk_data))}
                     /\ calls' = <<>>
    /\ UNCHANGED <<athletes, training_loads, treatments, lifestyle_logs,
                   injury_history, prediction, derived_load>>

\* POST /dashboard/calculate-all-risks: the athletes in id order; one with
\* an assessment on the date is skipped, one whose calculation raises is
\* reported in errors; the rows are committed together.
calculate_all_athlete_risks(target_date) ==
    LET existing(athlete) ==
            \E r \in risk_assessments :
                r.athlete_id = athlete.id /\ r.date = target_date
        calculated ==
            SelectSeq(RowsById(athletes),
                LAMBDA athlete :
                    /\ ~existing(athlete)
                    /\ ~IsRaised(calculate_overall_risk(DB, athlete.id,
                                                        target_date)))
    IN  /\ Cardinality(risk_assessments) + Len(calculated) <= MaxAssessments
        /\ risk_assessments' = risk_assessments \cup
               {Assessment(Cardinality(risk_assessments) + i,
                           calculated[i].id, target_date,
                           Val(calculate_overall_risk(DB, calculated[i].id,
                                                      target_date)))
                : i \in 1..Len(calculated)}
        /\ calls' = <<>>
        /\ UNCHANGED <<athletes, training_loads, treatments, lifestyle_logs,
                       injury_history, prediction, derived_load>>

AssessmentInit ==
    /\ athletes = AssessedAthletes
    /\ training_loads = {} /\ treatments = {} /\ lifestyle_logs = {}
    /\ injury_history = {} /\ risk_assessments = {}
    /\ calls = <<>>
    /\ prediction = None
    /\ derived_load = None

AssessmentNext ==
    \/ \E athlete_id \in 1..3, target_date \in AssessmentDates :
           calculate_athlete_risk(athlete_id, target_date)
    \/ \E target_date \in AssessmentDates :
           calculate_all_athlete_risks(target_date)

AssessmentSpec == AssessmentInit /\ [][AssessmentNext]_vars

(***************************************************************************)
(* The answers in a state.  No store has changed since calls[1] was        *)
(* answered, so DB is the store every answer in calls was computed from.   *)
(***************************************************************************)
Answers == {calls[i] : i \in 1..Len(calls)}
LocalsOf(c) == Val(c.locals)
ResultOf(c) == Val(c.value)

\* The keys of the dict calculate_overall_risk returns.
ResultKeys ==
    {"overall_risk_score", "risk_level", "acwr", "acute_load", "chronic_load",
     "load_spike_score", "recovery_score", "lifestyle_score",
     "injury_history_score", "training_monotony", "training_strain",
     "current_z_score", "max_z_score_7d", "sleep_modifier", "stress_modifier",
     "injury_recency_modifier", "age_modifier", "compound_multiplier",
     "recommendations"}

\* No load, treatment, lifestyle or injury record of athlete_id is stored.
NoRecords(athlete_id) ==
    /\ \A r \in training_loads : r.athlete_id # athlete_id
    /\ \A r \in treatments : r.athlete_id # athlete_id
    /\ \A r \in lifestyle_logs : r.athlete_id # athlete_id
    /\ \A r \in injury_history : r.athlete_id # athlete_id

\* The age of athlete_id is unknown: no Athlete row, or a row without age.
AgeUnknown(athlete_id) ==
    \A a \in athletes : a.id = athlete_id => a.age = None

(***************************************************************************)
(* C1: for every combination of stored records and athlete age, the        *)
(* reported overall_risk_score lies in [0, 100] and the reported           *)
(* compound_multiplier is at least 1.0.                                    *)
(***************************************************************************)
C1_ScoreInRange ==
    \A c \in Answers :
        /\ ~IsRaised(c.value)
        /\ 0 <= ResultOf(c).overall_risk_score
        /\ ResultOf(c).overall_risk_score <= 10000
        /\ ResultOf(c).compound_multiplier >= 100

(***************************************************************************)
(* C2: calculate_overall_risk never raises and always returns a complete   *)
(* result, also for an athlete id without an Athlete row; with no record   *)
(* of any kind and an unknown age the risk level is "low".                 *)
(***************************************************************************)
C2_NeverRaises ==
    \A c \in Answers :
        /\ ~IsRaised(c.value)
        /\ DOMAIN ResultOf(c) = ResultKeys
        /\ ResultOf(c).risk_level \in {"low", "medium", "high"}
        /\ NoRecords(c.athlete_id) /\ AgeUnknown(c.athlete_id)
               => ResultOf(c).risk_level = "low"

\* An answer for an athlete id that has no Athlete row and no record.
C2_Witness ==
    \E c \in Answers :
        /\ ~AthleteExists(c.athlete_id)
        /\ NoRecords(c.athlete_id)
        /\ ~IsRaised(c.value)
        /\ ResultOf(c).risk_level = "low"

(***************************************************************************)
(* C3: a load metric that cannot be computed for lack of samples           *)
(* contributes 0 to base_risk: acwr_risk is 0 when ACWR is unavailable     *)
(* (fewer than 7 loads in the 28-day window), monotony_risk is 0 when      *)
(* monotony is undefined (fewer than 3 loads in the 7-day window), and     *)
(* z_score_risk is 0 when the z-score spike is unavailable (fewer than 7   *)
(* loads in the 28-day window, or a baseline without deviation).           *)
(***************************************************************************)
AcwrUnavailable(athlete_id, target_date) ==
    Cardinality(AcwrLoads(DB, athlete_id, target_date, CHRONIC_WINDOW)) < 7

MonotonyUndefined(athlete_id, target_date) ==
    Cardinality(MonotonyLoads(DB, athlete_id, target_date,
                              MONOTONY_LOOKBACK)) < 3

ZScoreUnavailable(athlete_id, target_date) ==
    LET load_values == LoadValues(ZScoreLoads(DB, athlete_id, target_date,
                                              ZSCORE_LOOKBACK))
    IN  \/ Len(load_values) < 7
        \/ VarianceN2(ZBaseline(load_values)) = 0

C3_UnavailableContributesZero ==
    \A c \in Answers :
        /\ ~IsRaised(c.value)
        /\ AcwrUnavailable(c.athlete_id, c.target_date)
               => LocalsOf(c).acwr_risk = 0
        /\ MonotonyUndefined(c.athlete_id, c.target_date)
               => LocalsOf(c).monotony_risk = 0
        /\ ZScoreUnavailable(c.athlete_id, c.target_date)
               => LocalsOf(c).z_score_risk = 0

(***************************************************************************)
(* C4: whenever calculate_acwr returns a result, acwr_risk is 80 for an    *)
(* ACWR above 1.5 or below 0.8 (an ACWR of 0 included), 50 for an ACWR     *)
(* above 1.3 or below 0.9, and 20 otherwise; it is 0 only when             *)
(* calculate_acwr returns nothing.                                         *)
(***************************************************************************)
AcwrBucket(acwr) ==
    IF QGt(acwr, Q(15, 10)) \/ QLt(acwr, Q(8, 10)) THEN 80
    ELSE IF QGt(acwr, Q(13, 10)) \/ QLt(acwr, Q(9, 10)) THEN 50
    ELSE 20

C4_AcwrRiskBuckets ==
    \A c \in Answers :
        /\ ~IsRaised(c.value)
        /\ LocalsOf(c).acwr_risk =
               IF LocalsOf(c).acwr = None THEN 0
               ELSE AcwrBucket(Val(LocalsOf(c).acwr))

(***************************************************************************)
(* C5: the reported risk_level agrees with the reported (rounded)          *)
(* overall_risk_score: "high" from 70, "medium" from 40 to below 70,       *)
(* "low" below 40.                                                         *)
(***************************************************************************)
LevelOfScore(score) ==
    IF score >= 7000 THEN "high"
    ELSE IF score >= 4000 THEN "medium"
    ELSE "low"

C5_LevelAgreesWithScore ==
    \A c \in Answers :
        /\ ~IsRaised(c.value)
        /\ ResultOf(c).risk_level = LevelOfScore(ResultOf(c).overall_risk_score)

RecordsUpTo(db, target_date) ==
    [athletes |-> db.athletes,
     training_loads |-> {r \in db.training_loads : r.date <= target_date},
     treatments |-> {r \in db.treatments : r.date <= target_date},
     lifestyle_logs |-> {r \in db.lifestyle_logs : r.date <= target_date},
     injury_history |-> {r \in db.injury_history :
                            r.injury_date <= target_date},
     risk_assessments |-> db.risk_assessments]

\* The records of athlete_id dated on target_date are in every window.
OnTargetDateInside(athlete_id, target_date) ==
    /\ \A r \in training_loads :
           r.athlete_id = athlete_id /\ r.date = target_date =>
               /\ r \in AcwrLoads(DB, athlete_id, target_date, CHRONIC_WINDOW)
               /\ r \in AcwrLoads(DB, athlete_id, target_date, ACUTE_WINDOW)
               /\ r \in SpikeLoads(DB, athlete_id, target_date, SPIKE_LOOKBACK)
               /\ r \in MonotonyLoads(DB, athlete_id, target_date,
                                      MONOTONY_LOOKBACK)
               /\ r \in StrainLoads(DB, athlete_id, target_date,
                                    MONOTONY_LOOKBACK)
               /\ r \in ZScoreLoads(DB, athlete_id, target_date,
                                    ZSCORE_LOOKBACK)
    /\ \A r \in treatments :
           r.athlete_id = athlete_id /\ r.date = target_date =>
               r \in RecoveryTreatments(DB, athlete_id, target_date,
                                        RECOVERY_LOOKBACK)
    /\ \A r \in lifestyle_logs :
           r.athlete_id = athlete_id /\ r.date = target_date =>
               /\ r \in LifestyleLogs(DB, athlete_id, target_date,
                                      LIFESTYLE_LOOKBACK)
               /\ r \in SleepLogs(DB, athlete_id, target_date,
                                  MODIFIER_LOOKBACK)
               /\ r \in StressLogs(DB, athlete_id, target_date,
                                   MODIFIER_LOOKBACK)
    /\ \A r \in injury_history :
           r.athlete_id = athlete_id /\ r.injury_date = target_date =>
               /\ r \in HistoryInjuries(DB, athlete_id, target_date,
                                        INJURY_LOOKBACK)
               /\ r \in RecencyInjuries(DB, athlete_id, target_date)

DatesEnding(target_date, n) == (target_date - (n - 1))..target_date

C8_WindowOfNDates ==
    \A c \in Answers :
        LET a == c.athlete_id
            t == c.target_date
        IN  /\ \A r \in AcwrLoads(DB, a, t, CHRONIC_WINDOW) :
                   r.date \in DatesEnding(t, 28)
            /\ \A r \in MonotonyLoads(DB, a, t, MONOTONY_LOOKBACK) :
                   r.date \in DatesEnding(t, 7)
            /\ \A r \in ZScoreLoads(DB, a, t, ZSCORE_LOOKBACK) :
                   r.date \in DatesEnding(t, 28)
            /\ \A r \in SpikeLoads(DB, a, t, SPIKE_LOOKBACK) :
                   r.date \in DatesEnding(t, 14)
            /\ \A r \in RecoveryTreatments(DB, a, t, RECOVERY_LOOKBACK) :
                   r.date \in DatesEnding(t, 14)
            /\ \A r \in HistoryInjuries(DB, a, t, INJURY_LOOKBACK) :
                   r.injury_date \in DatesEnding(t, 180)
            /\ \A r \in RecencyInjuries(DB, a, t) :
                   r.injury_date \in DatesEnding(t, 90)

(***************************************************************************)
(* The answered prediction of a state of RecoverySpec.                     *)
(***************************************************************************)
Answered == prediction # None /\ Val(prediction).value # None
Request == Val(prediction).request
Prediction == Val(Val(prediction).value)

(***************************************************************************)
(* C9: for every injury type, severity, age and previous-injury context,   *)
(* predict_recovery_time returns min_recovery_days <=                      *)
(* typical_recovery_days <= max_recovery_days, hence                       *)
(* expected_return_date_min <= expected_return_date_typical <=             *)
(* expected_return_date_max, and each date is the date the prediction is   *)
(* issued on (today, as the clock gives it for that date, not the injury   *)
(* date) plus the corresponding number of days.                            *)
(***************************************************************************)
C9_RecoveryOrdered ==
    Answered =>
        /\ Prediction.min_recovery_days <= Prediction.typical_recovery_days
        /\ Prediction.typical_recovery_days <= Prediction.max_recovery_days
        /\ Prediction.expected_return_date_min
               <= Prediction.expected_return_date_typical
        /\ Prediction.expected_return_date_typical
               <= Prediction.expected_return_date_max
        /\ Prediction.expected_return_date_min
               = Request.today[1] + Prediction.min_recovery_days
        /\ Prediction.expected_return_date_typical
               = Request.today[2] + Prediction.typical_recovery_days
        /\ Prediction.expected_return_date_max
               = Request.today[3] + Prediction.max_recovery_days

\* A prediction with three different numbers of days, a total multiplier
\* other than 1.0 and a day that ends during the call.
C9_Witness ==
    /\ Answered
    /\ Prediction.min_recovery_days < Prediction.typical_recovery_days
    /\ Prediction.typical_recovery_days < Prediction.max_recovery_days
    /\ Prediction.modifiers_applied.total_multiplier > 100
    /\ Request.previous[1]
    /\ Request.today[1] # Request.today[3]

(***************************************************************************)
(* C10: predict_recovery_time is monotone in severity and in age: with the *)
(* other arguments fixed, a severity higher in the order minor < mild <    *)
(* moderate < severe < catastrophic, or an age in a higher band (<25,      *)
(* 25-29, 30-34, >=35), never gives fewer min, typical or max recovery     *)
(* days.                                                                   *)
(***************************************************************************)
SeverityOrder ==
    <<Str_minor, Str_mild, Str_moderate, Str_severe, Str_catastrophic>>

AgeBand(age) ==
    IF age < 25 THEN 1 ELSE IF age < 30 THEN 2 ELSE IF age < 35 THEN 3 ELSE 4

NoFewerDays(p, q) ==
    /\ p.min_recovery_days <= q.min_recovery_days
    /\ p.typical_recovery_days <= q.typical_recovery_days
    /\ p.max_recovery_days <= q.max_recovery_days

C10_MonotoneInSeverityAndAge ==
    Answered =>
        /\ \A i \in 1..5 : \A j \in (i + 1)..5 :
               Request.severity = Some(SeverityOrder[i]) =>
                   NoFewerDays(Prediction,
                       Predict([Request EXCEPT
                                    !.severity = Some(SeverityOrder[j])]))
        /\ \A age \in RecoveryAges :
               (/\ Request.athlete_age # None /\ age # None
                /\ AgeBand(Val(Request.athlete_age)) < AgeBand(Val(age)))
               => NoFewerDays(Prediction,
                      Predict([Request EXCEPT !.athlete_age = age]))

\* A prediction for a minor injury of an athlete of 24 that is shorter than
\* the one for a catastrophic injury and than the one at 35.
C10_Witness ==
    /\ Answered
    /\ Request.severity = Some(Str_minor)
    /\ Request.athlete_age = Some(24)
    /\ Prediction.min_recovery_days <
           Predict([Request EXCEPT !.severity = Some(Str_catastrophic)])
               .min_recovery_days
    /\ Prediction.max_recovery_days <
           Predict([Request EXCEPT !.athlete_age = Some(35)]).max_recovery_days

(***************************************************************************)
(* C11: the previous-injury factor of a prediction is 1.5 when             *)
(* predict_recovery_time is given previous_injury_same_area true and a     *)
(* days_since_previous_injury in 0..179, 1.3 when it is given 180 or more, *)
(* and 1.0 when there is no prior injury.                                  *)
(***************************************************************************)
C11_PreviousInjuryFactor ==
    Answered =>
        LET factor == Prediction.modifiers_applied.previous_injury_factor
            previous == Request.previous[1]
            days == Request.previous[2]
        IN  /\ ~previous => factor = 100
            /\ (previous /\ days # None /\ Val(days) \in 0..179)
                   => factor = 150
            /\ (previous /\ days # None /\ Val(days) >= 180) => factor = 130

\* The previous-injury factor the spec gives an injury of the table rows:
\* by the most recent injury of the same athlete to the same body part
\* dated before it.
PriorInjuryFactor(rows, injury) ==
    LET prior == {r \in rows : /\ r.id # injury.id
                               /\ r.athlete_id = injury.athlete_id
                               /\ r.body_part = injury.body_part
                               /\ r.injury_date < injury.injury_date}
        latest == CHOOSE d \in {r.injury_date : r \in prior} :
                      \A r \in prior : r.injury_date <= d
    IN  IF prior = {} THEN 100
        ELSE IF injury.injury_date - latest < 180 THEN 150
        ELSE 130

\* C11, second half: predict_recovery_for_athlete_injury takes as the prior
\* injury the most recent injury of the same athlete and the same body part
\* dated before this injury.
C11_PriorInjuryIsMostRecent ==
    (Answered /\ Prediction.status = 200) =>
        \A injury \in injury_history :
            injury.id = Request.injury_id =>
                Prediction.body.modifiers_applied.previous_injury_factor
                    = PriorInjuryFactor(injury_history, injury)

\* A prediction for an injury with two earlier injuries to the same body
\* part, the older 180 days and the later 90 days before it.
C11_PriorInjuryWitness ==
    /\ Answered /\ Prediction.status = 200
    /\ \E injury, p1, p2 \in injury_history :
           /\ injury.id = Request.injury_id
           /\ p1.body_part = injury.body_part /\ p2.body_part = injury.body_part
           /\ injury.injury_date - p1.injury_date = 180
           /\ injury.injury_date - p2.injury_date = 90
    /\ Prediction.body.modifiers_applied.previous_injury_factor = 150

(***************************************************************************)
(* C12: the recovery prediction of a stored injury is the not-found answer *)
(* (only an error, 404 at the endpoint) exactly when no injury row has the *)
(* given id; for every stored injury it is a full prediction, with age     *)
(* factor 1.0 when the athlete row is missing or has no age, severity      *)
(* factor 1.0 when the severity is absent or unrecognised, and the         *)
(* baseline of "other" when the injury type matches no category.           *)
(***************************************************************************)
PredictionKeys ==
    {"min_recovery_days", "typical_recovery_days", "max_recovery_days",
     "expected_return_date_min", "expected_return_date_typical",
     "expected_return_date_max", "modifiers_applied", "injury_id",
     "athlete_id", "injury_date", "body_part", "injury_type"}

C12_NotFoundOnlyWithoutRow ==
    Answered =>
        LET rows == {r \in injury_history : r.id = Request.injury_id}
        IN  /\ Prediction.status = 404 <=> rows = {}
            /\ rows = {} =>
                   /\ Prediction = [status |-> 404, detail |-> "Injury not found"]
                   /\ predict_recovery_for_athlete_injury(DB,
                          Request.injury_id, Request.today)
                          = [error |-> "Injury not found"]
            /\ \A injury \in rows :
                   LET body == Prediction.body
                       applied == body.modifiers_applied
                   IN  /\ Prediction.status = 200
                       /\ DOMAIN body = PredictionKeys
                       /\ body.injury_id = injury.id
                       /\ (athletes = {} \/ \A a \in athletes : a.age = None)
                              => applied.age_factor = 100
                       /\ (injury.severity = None
                           \/ lower(Val(injury.severity))
                                  \notin DOMAIN SEVERITY_MULTIPLIERS)
                              => applied.severity_factor = 100
                       /\ (injury.injury_type = Str_Concussion
                           /\ applied.total_multiplier = 100)
                              => /\ body.min_recovery_days = 7
                                 /\ body.typical_recovery_days = 21
                                 /\ body.max_recovery_days = 42

\* A full prediction for a stored injury without an athlete row, without a
\* severity and of a type that matches no category.
C12_Witness ==
    /\ Answered /\ Prediction.status = 200
    /\ athletes = {}
    /\ \E injury \in injury_history :
           /\ injury.id = Request.injury_id
           /\ injury.severity = None
           /\ injury.injury_type = Str_Concussion
    /\ Prediction.body.typical_recovery_days = 21

(***************************************************************************)
(* C13: for an athlete with 28 consecutive daily loads of 300 ending at    *)
(* the target date, calculate_overall_risk reports training_monotony 10.0  *)
(* and training_strain 28 * 300 * 10.0 = 84000; the strain is undefined    *)
(* exactly when the monotony is.                                           *)
(***************************************************************************)
SteadyHistory ==
    training_loads = HistoryRows([w \in 1..HistoryWeeks |-> SteadyWeek])

C13_StrainOfSteadyLoads ==
    \A c \in Answers :
        /\ (LocalsOf(c).strain = None) <=> (LocalsOf(c).monotony = None)
        /\ (SteadyHistory /\ c.target_date = HistoryEnd) =>
               /\ ResultOf(c).training_monotony = Some(10 * 100)
               /\ ResultOf(c).training_strain = Some(28 * 300 * 10 * 100)

(***************************************************************************)
(* C14: the training monotony is 10.0 whenever the loads of the window     *)
(* have zero variance, whatever their mean (a mean of 0 included), and     *)
(* 10.0 is its largest value: for every window of at least 3 loads         *)
(* calculate_training_monotony returns at most 10.0.                       *)
(***************************************************************************)
C14_MonotonyAtMostTen ==
    \A c \in Answers :
        LET load_values == LoadValues(MonotonyLoads(DB, c.athlete_id,
                               c.target_date, MONOTONY_LOOKBACK))
            monotony == LocalsOf(c).monotony
        IN  Len(load_values) >= 3 =>
                /\ monotony # None
                /\ VarianceN2(load_values) = 0 => Val(monotony) = 10 * 100
                /\ Val(monotony) <= 10 * 100

(***************************************************************************)
(* C15: with n >= 7 samples in its window, calculate_z_score_spike takes   *)
(* as baseline the first n - 7 samples when n >= 21, otherwise the first   *)
(* floor(0.75 n) samples, otherwise (fewer than 3 left) all n samples;     *)
(* with fewer than 7 samples or a baseline of standard deviation 0 both    *)
(* z-scores are 0.                                                         *)
(***************************************************************************)
BaselinePopulation(load_values) ==
    LET n == Len(load_values)
        first == IF n >= 21 THEN FirstN(load_values, n - 7)
                 ELSE FirstN(load_values, (3 * n) \div 4)
    IN  IF Len(first) < 3 THEN load_values ELSE first

C15_ZScoreBaseline ==
    \A c \in Answers :
        LET load_values == LoadValues(ZScoreLoads(DB, c.athlete_id,
                               c.target_date, ZSCORE_LOOKBACK))
            baseline == BaselinePopulation(load_values)
            z_scores == [current_z_score |-> LocalsOf(c).current_z,
                         max_z_score_7d |-> LocalsOf(c).max_z_7d]
        IN  IF Len(load_values) < 7 \/ VarianceN2(baseline) = 0
            THEN z_scores = [current_z_score |-> 0, max_z_score_7d |-> 0]
            ELSE z_scores = ZScoresAgainst(load_values, baseline)

(***************************************************************************)
(* C16: the recommendations of a risk result contain the compound-risk     *)
(* alert exactly when the compound_multiplier reported in the same result  *)
(* is greater than 2.0.                                                    *)
(***************************************************************************)
Sentences(c) == ResultOf(c).recommendations
Tags(c) == [i \in 1..Len(Sentences(c)) |-> Sentences(c)[i][1]]
Fired(c, tag) == \E i \in 1..Len(Tags(c)) : Tags(c)[i] = tag

C16_AlertWhenReportedAboveTwo ==
    \A c \in Answers :
        Fired(c, "COMPOUND RISK ALERT")
            <=> ResultOf(c).compound_multiplier > 2 * 100

(***************************************************************************)
(* C17: the sentences come in a fixed order: the overall-risk banner first *)
(* when risk_level is "high" or "medium" (and no banner when it is "low"), *)
(* then the fired sentences in the order compound alert, monotony, strain, *)
(* z-score spike, ACWR, sleep, stress, injury recency, age, recovery,      *)
(* lifestyle; no sentence appears twice.                                   *)
(***************************************************************************)
SentenceOrder ==
    <<{"HIGH RISK ALERT", "MODERATE RISK"},
      {"COMPOUND RISK ALERT"},
      {"HIGH TRAINING MONOTONY", "ELEVATED MONOTONY"},
      {"EXTREME TRAINING STRAIN"},
      {"EXTREME LOAD SPIKE", "SIGNIFICANT LOAD SPIKE"},
      {"ACWR VERY HIGH", "ACWR VERY LOW", "ACWR ELEVATED", "ACWR OPTIMAL"},
      {"CRITICAL SLEEP DEFICIT", "POOR SLEEP"},
      {"HIGH STRESS LOAD", "MODERATE STRESS"},
      {"VERY RECENT INJURY", "RECENT INJURY"},
      {"AGE CONSIDERATION"},
      {"LOW RECOVERY SCORE", "MODERATE RECOVERY NEEDED"},
      {"POOR LIFESTYLE METRICS"},
      {"EXCELLENT"}>>
Place(tag) == CHOOSE k \in 1..Len(SentenceOrder) : tag \in SentenceOrder[k]
BannerOf(risk_level) ==
    IF risk_level = "high" THEN "HIGH RISK ALERT" ELSE "MODERATE RISK"

NoRuleFires(c) ==
    LET l == LocalsOf(c)
    IN  /\ QLe(l.compound, QInt(2))
        /\ ~(Truthy(l.monotony) /\ Val(l.monotony) > 150)
        /\ ~(Truthy(l.strain) /\ Val(l.strain) > 300000)
        /\ l.max_z_7d <= 200
        /\ ~QTruthy(l.acwr)
        /\ l.sleep_mod < 120 /\ l.stress_mod < 115
        /\ l.injury_recency_mod < 150 /\ l.age_mod < 130
        /\ QGe(l.recovery_score, QInt(60))
        /\ QGe(l.lifestyle_score, QInt(50))
        /\ l.risk_level = "low"

C18_DefaultOnlyWhenNothingFired ==
    \A c \in Answers :
        /\ Tags(c) # <<>>
        /\ Fired(c, "EXCELLENT") <=> NoRuleFires(c)
        /\ Fired(c, "EXCELLENT") => Tags(c) = <<"EXCELLENT">>

\* An athlete for whom nothing fires: the answer is the default sentence.
C18_Witness ==
    \E c \in Answers :
        /\ NoRuleFires(c)
        /\ Tags(c) = <<"EXCELLENT">>
        /\ lifestyle_logs # {} /\ treatments # {}

(***************************************************************************)
(* C19: calculate_acwr returns no result when the chronic window holds     *)
(* fewer than acute_window samples; otherwise acute_load is the mean of    *)
(* exactly the last acute_window values, chronic_load the mean of all the  *)
(* values of the window, and acwr their quotient, or 0 when chronic_load   *)
(* is 0.                                                                   *)
(***************************************************************************)
C19_AcwrOfWindow ==
    \A c \in Answers :
        LET load_values == LoadValues(AcwrLoads(DB, c.athlete_id,
                               c.target_date, CHRONIC_WINDOW))
            n == Len(load_values)
            acute_sum == SumSeq(SubSeq(load_values, n - ACUTE_WINDOW + 1, n))
            chronic_sum == SumSeq(load_values)
            l == LocalsOf(c)
        IN  IF n < ACUTE_WINDOW
            THEN l.acwr = None /\ l.acute_load = None /\ l.chronic_load = None
            ELSE /\ l.acute_load = Some(Q(acute_sum, ACUTE_WINDOW))
                 /\ l.chronic_load = Some(Q(chronic_sum, n))
                 /\ l.acwr = Some(IF chronic_sum = 0 THEN QInt(0)
                                  ELSE Q(acute_sum * n,
                                         ACUTE_WINDOW * chronic_sum))

\* An answer over a window of more than acute_window samples whose last
\* acute_window values have another mean than the whole window.
C19_Witness ==
    \E c \in Answers :
        /\ Cardinality(AcwrLoads(DB, c.athlete_id, c.target_date,
                                 CHRONIC_WINDOW)) > ACUTE_WINDOW
        /\ LocalsOf(c).acwr # None
        /\ LocalsOf(c).acute_load # LocalsOf(c).chronic_load
        /\ Val(LocalsOf(c).acwr) = Q(3, 2)

(***************************************************************************)
(* C20: for records within their documented ranges (loads >= 0,            *)
(* sleep_quality, nutrition_score and stress_level in 1..10, sleep_hours   *)
(* > 0) each component score lies in [0, 100]; the load spike score is 0   *)
(* with fewer than 3 samples and leaves out every transition whose prior   *)
(* value is 0.                                                             *)
(***************************************************************************)
Percent(x) == QLe(QInt(0), x) /\ QLe(x, QInt(100))

RecordsInRange ==
    /\ \A r \in training_loads : r.training_load >= 0
    /\ \A r \in lifestyle_logs :
           /\ r.sleep_hours # None => Val(r.sleep_hours).n > 0
           /\ \A f \in {r.sleep_quality, r.nutrition_score, r.stress_level} :
                  f # None => Val(f) \in 1..10

\* The spike score of load_values by the rule of the claim.
SpikeScoreOf(load_values) ==
    LET n == Len(load_values)
        from == SelectSeq([i \in 1..(n - 1) |-> i],
                          LAMBDA i : load_values[i] # 0)
        changes == [k \in 1..Len(from) |->
                       Q(Abs(load_values[from[k] + 1] - load_values[from[k]])
                             * 100, load_values[from[k]])]
        spikes == {k \in 1..Len(from) : QGt(changes[k], QInt(30))}
    IN  IF n < 3 \/ from = <<>> THEN QInt(0)
        ELSE QMin(QInt(100),
                  QAdd(QAdd(QMul(QMean(changes), QInt(2)),
                            QMul(QMaxSeq(changes), Q(1, 2))),
                       QInt(10 * Cardinality(spikes))))

C20_ComponentScoresInRange ==
    \A c \in Answers :
        RecordsInRange =>
            LET l == LocalsOf(c)
                load_values == LoadValues(SpikeLoads(DB, c.athlete_id,
                                   c.target_date, SPIKE_LOOKBACK))
            IN  /\ Percent(l.load_spike_score) /\ Percent(l.recovery_score)
                /\ Percent(l.lifestyle_score)
                /\ Percent(l.injury_history_score)
                /\ Len(load_values) < 3 => l.load_spike_score = QInt(0)
                /\ l.load_spike_score = SpikeScoreOf(load_values)

\* An answer for an athlete with a lifestyle log, treatments, an injury and
\* a week of loads with days of load 0 followed by a positive load, whose
\* spike score reaches 100.
C20_Witness ==
    \E c \in Answers :
        /\ RecordsInRange
        /\ lifestyle_logs # {} /\ treatments # {} /\ injury_history # {}
        /\ \E r, q \in training_loads :
               q.date = r.date + 1 /\ r.training_load = 0 /\ q.training_load > 0
        /\ LocalsOf(c).load_spike_score = QInt(100)
        /\ QGt(LocalsOf(c).injury_history_score, QInt(0))

(***************************************************************************)
(* C21  The recovery score as a function of the treatments it reads.       *)
(***************************************************************************)
\* The treatments a recovery score was computed from, and how many of them
\* are severe or moderate.
TreatmentsRead(c) ==
    RecoveryTreatments(DB, c.athlete_id, c.target_date, RECOVERY_LOOKBACK)
SevereOrModerate(rows) ==
    Cardinality({t \in rows : t.severity # None
                     /\ Val(t.severity) \in {Str_severe, Str_moderate}})

\* window_days times the score of count treatments, severe of them severe
\* or moderate: with rate = count / (window_days / 7), the frequency
\* sub-score less the severity penalty, floored at 0.
RecoveryPoints(count, severe, window_days) ==
    LET frequency ==
            IF 2 * window_days <= 7 * count /\ 7 * count <= 4 * window_days
            THEN 100 * window_days
            ELSE IF 7 * count < 2 * window_days
            THEN (IF 350 * count < 100 * window_days THEN 350 * count
                  ELSE 100 * window_days)
            ELSE IF 100 * window_days - 10 * (7 * count - 4 * window_days) > 0
            THEN 100 * window_days - 10 * (7 * count - 4 * window_days)
            ELSE 0
        penalty == IF 10 * severe < 40 THEN 10 * severe ELSE 40
    IN  IF frequency - penalty * window_days > 0
        THEN frequency - penalty * window_days ELSE 0

\* C21: every recovery score is the frequency sub-score of the treatment
\* rate (100 for 2 to 4 a week, 50 * rate below, 100 - 10 * (rate - 4)
\* floored at 0 above) less min(40, 10 * number of severe or moderate
\* treatments), floored at 0; without treatments it is 0.
C21_RecoveryScoreFormula ==
    \A c \in Answers :
        LET rows == TreatmentsRead(c)
            score == LocalsOf(c).recovery_score
        IN  /\ score = Q(RecoveryPoints(Cardinality(rows),
                                        SevereOrModerate(rows),
                                        RECOVERY_LOOKBACK),
                         RECOVERY_LOOKBACK)
            /\ rows = {} => score = QInt(0)

\* A score of more than 4 treatments a week, some of them severe or
\* moderate, that is above 0.
C21_Witness ==
    \E c \in Answers :
        /\ 7 * Cardinality(TreatmentsRead(c)) > 4 * RECOVERY_LOOKBACK
        /\ SevereOrModerate(TreatmentsRead(c)) > 0
        /\ QGt(LocalsOf(c).recovery_score, QInt(0))

(***************************************************************************)
(* C22  The lifestyle score as a function of the samples it reads.         *)
(***************************************************************************)
\* The lifestyle samples a score was computed from, in id order.
SamplesRead(c) ==
    RowsById(LifestyleLogs(DB, c.athlete_id, c.target_date,
                           LIFESTYLE_LOOKBACK))

\* The fields of a sample that are present, and the total of their
\* sub-scores.
PresentFields(log) ==
    {f \in {"sleep_hours", "sleep_quality", "nutrition_score", "stress_level"}
       : log[f] # None}
SampleTotal(log) ==
    LET sleep == IF log.sleep_hours = None THEN QInt(0)
                 ELSE IF QLe(QInt(7), Val(log.sleep_hours))
                         /\ QLe(Val(log.sleep_hours), QInt(9)) THEN QInt(25)
                 ELSE IF QLe(QInt(6), Val(log.sleep_hours))
                         /\ QLe(Val(log.sleep_hours), QInt(10)) THEN QInt(15)
                 ELSE QInt(5)
        quality == IF log.sleep_quality = None THEN QInt(0)
                   ELSE Q(5 * Val(log.sleep_quality), 2)
        nutrition == IF log.nutrition_score = None THEN QInt(0)
                     ELSE Q(5 * Val(log.nutrition_score), 2)
        stress == IF log.stress_level = None THEN QInt(0)
                  ELSE Q(5 * (10 - Val(log.stress_level) + 1), 2)
    IN  QAdd(QAdd(sleep, quality), QAdd(nutrition, stress))

\* C22: the lifestyle score is 50 when no sample of the window has a present
\* field, and otherwise the mean, over the samples with a present field, of
\* the total of the sub-scores of the present fields.
C22_LifestyleScoreFormula ==
    \A c \in Answers :
        LET contributing == SelectSeq(SamplesRead(c),
                                LAMBDA log : PresentFields(log) # {})
            totals == [i \in 1..Len(contributing) |->
                          SampleTotal(contributing[i])]
        IN  LocalsOf(c).lifestyle_score =
                IF contributing = <<>> THEN QInt(50) ELSE QMean(totals)

(***************************************************************************)
(* C23  The band of each risk modifier.                                    *)
(***************************************************************************)
\* The values of a field over the seven dates ending at the target date, of
\* the samples that hold the field.
WeekValues(c, field) ==
    LET logs == RowsById(InWindow(DB.lifestyle_logs, c.athlete_id,
                                  c.target_date - 6, c.target_date))
        present == SelectSeq(logs, LAMBDA log : log[field] # None)
    IN  [i \in 1..Len(present) |-> Val(present[i][field])]

SleepBand(hours) ==
    IF hours = <<>> THEN 100
    ELSE IF QLt(QMean(hours), QInt(6)) THEN 140
    ELSE IF QLt(QMean(hours), QInt(7)) THEN 120
    ELSE IF QLe(QMean(hours), QInt(9)) THEN 100
    ELSE 110

StressBand(levels) ==
    IF levels = <<>> THEN 100
    ELSE IF 8 * Len(levels) <= SumSeq(levels) THEN 130
    ELSE IF 6 * Len(levels) <= SumSeq(levels) THEN 115
    ELSE 100

\* By the days since the most recent injury of the 90 days up to the target
\* date.
RecencyBand(c) ==
    LET days == {c.target_date - r.injury_date : r \in
                    {r \in DB.injury_history :
                        /\ r.athlete_id = c.athlete_id
                        /\ r.injury_date <= c.target_date
                        /\ c.target_date - r.injury_date <= 90}}
        latest == CHOOSE d \in days : \A e \in days : d <= e
    IN  IF days = {} THEN 100
        ELSE IF latest < 14 THEN 180
        ELSE IF latest < 30 THEN 150
        ELSE IF latest < 60 THEN 125
        ELSE 110

AgeOf(c) ==
    LET rows == {a \in DB.athletes : a.id = c.athlete_id}
    IN  IF rows = {} THEN None ELSE (CHOOSE a \in rows : TRUE).age

AgeBandModifier(age) ==
    IF age = None THEN 100
    ELSE IF Val(age) < 25 THEN 100
    ELSE IF Val(age) < 30 THEN 110
    ELSE IF Val(age) < 35 THEN 120
    ELSE 130

\* C23: every risk modifier is the value of its documented band - sleep and
\* stress by the 7-day mean of the samples that hold the field, recency by
\* the days since the most recent injury of the last 90 days, age by the
\* age band - it is at least 1.0, and it is 1.0 without samples.
C23_ModifierBands ==
    \A c \in Answers :
        LET l == LocalsOf(c)
        IN  /\ l.sleep_mod = SleepBand(WeekValues(c, "sleep_hours"))
            /\ l.stress_mod = StressBand(WeekValues(c, "stress_level"))
            /\ l.injury_recency_mod = RecencyBand(c)
            /\ l.age_mod = AgeBandModifier(AgeOf(c))
            /\ l.sleep_mod >= 100 /\ l.stress_mod >= 100
            /\ l.injury_recency_mod >= 100 /\ l.age_mod >= 100

(***************************************************************************)
(* C24  The training load derived from the metrics of a session.           *)
(***************************************************************************)
Derived == derived_load # None /\ Val(derived_load).value # None
Metrics == Val(derived_load).metrics
DerivedLoad == Val(Val(derived_load).value)

\* 160 * distance + 1.5 * acceleration load + 5 * average speed
\* + 2 * max speed, an absent speed counting 0.
WeightedMetrics(m) ==
    LET speed == IF m.average_speed_mph = None THEN QInt(0)
                 ELSE Val(m.average_speed_mph)
        max_speed == IF m.max_speed_mph = None THEN QInt(0)
                     ELSE Val(m.max_speed_mph)
    IN  QAdd(QAdd(QMul(QInt(160), m.distance_miles),
                  QMul(Q(3, 2), m.accumulated_accel_load)),
             QAdd(QMul(QInt(5), speed), QMul(QInt(2), max_speed)))

\* h hundredths is x rounded to 2 decimals: no hundredth is nearer to x.
RoundsTo(x, h) == QLe(QAbs(QSub(QMul(QInt(100), x), QInt(h))), Q(1, 2))

ExampleMetrics ==
    [distance_miles |-> QInt(5), accumulated_accel_load |-> QInt(100),
     average_speed_mph |-> Some(QInt(4)), max_speed_mph |-> Some(QInt(15))]

\* C24: the derived training load is 160 * distance_miles
\* + 1.5 * accumulated_accel_load + 5 * average_speed_mph
\* + 2 * max_speed_mph rounded to 2 decimals, an absent speed contributing
\* 0; the metrics (5, 100, 4, 15) give 1000.0.
C24_DerivedLoadFormula ==
    Derived =>
        /\ RoundsTo(WeightedMetrics(Metrics), DerivedLoad)
        /\ Metrics = ExampleMetrics => DerivedLoad = 100000

\* A computed load that rounding changed, of a session without an average
\* speed and with a max speed.
C24_Witness ==
    /\ Derived
    /\ Metrics.average_speed_mph = None /\ Metrics.max_speed_mph # None
    /\ WeightedMetrics(Metrics) # Hundredths(DerivedLoad)
    /\ QGt(WeightedMetrics(Metrics), QInt(0))

(***************************************************************************)
(* C25  The days and the total multiplier of a prediction.                 *)
(***************************************************************************)
\* The baseline of the category of the request.
CategoryOf(request) ==
    IF _normalize_injury_type(request.injury_type)
           \in DOMAIN RECOVERY_BASELINES
    THEN _normalize_injury_type(request.injury_type) ELSE Str_other
BaselineOf(request) == RECOVERY_BASELINES[CategoryOf(request)]

\* 10^6 times the product of the three reported factors (each is reported
\* in hundredths).
FactorProduct(modifiers) ==
    modifiers.age_factor * modifiers.severity_factor
        * modifiers.previous_injury_factor

\* days times the product of the reported factors, truncated.
TruncatedDays(days, modifiers) == (days * FactorProduct(modifiers)) \div 1000000

DaysAreScaledBaselines ==
    LET m == Prediction.modifiers_applied
        b == BaselineOf(Request)
    IN  /\ Prediction.min_recovery_days = TruncatedDays(b.min, m)
        /\ Prediction.typical_recovery_days = TruncatedDays(b.typical, m)
        /\ Prediction.max_recovery_days = TruncatedDays(b.max, m)

\* "Grade 2 Hamstring Strain", "moderate", age 32, no prior injury.
IsExampleRequest ==
    /\ Request.injury_type = Str_Grade_2_Hamstring_Strain
    /\ Request.severity = Some(Str_moderate)
    /\ Request.athlete_age = Some(32)
    /\ Request.previous = <<FALSE, None>>

ExampleAnswer ==
    /\ CategoryOf(Request) = Str_muscle_strain_grade2
    /\ BaselineOf(Request) = Baseline(14, 21, 28)
    /\ Prediction.modifiers_applied.total_multiplier = 120
    /\ Prediction.min_recovery_days = 16
    /\ Prediction.typical_recovery_days = 25
    /\ Prediction.max_recovery_days = 33

\* C25: the days of a prediction are the baseline days of the category
\* times the product of the age, severity and previous-injury factors,
\* truncated to whole days; the reported total_multiplier is that product,
\* to the 2 decimals it is reported with; the example request gives
\* muscle_strain_grade2, total 1.2 and 16/25/33.
C25_DaysAreTruncatedProducts ==
    Answered =>
        /\ DaysAreScaledBaselines
        /\ RoundsTo(Q(FactorProduct(Prediction.modifiers_applied), 1000000),
                    Prediction.modifiers_applied.total_multiplier)
        /\ IsExampleRequest => ExampleAnswer

(***************************************************************************)
(* C26  The category of an injury text.                                    *)
(***************************************************************************)
\* The rules of the cascade over the lowered text t with "_" for " ", as
\* pairs <<condition, category>> in their order.
CategoryRules(t) ==
    LET has(word) == Contains(word, t)
        grade3 == has(Str_grade_3) \/ has(Str_severe)
        grade2 == has(Str_grade_2) \/ has(Str_moderate)
    IN  <<<<t \in DOMAIN RECOVERY_BASELINES, t>>,
          <<has(Str_strain) /\ grade3, Str_muscle_strain_grade3>>,
          <<has(Str_strain) /\ grade2, Str_muscle_strain_grade2>>,
          <<has(Str_strain), Str_muscle_strain_grade1>>,
          <<has(Str_sprain) /\ grade3, Str_ligament_sprain_grade3>>,
          <<has(Str_sprain) /\ grade2, Str_ligament_sprain_grade2>>,
          <<has(Str_sprain), Str_ligament_sprain_grade1>>,
          <<has(Str_tendon) /\ (has(Str_rupture) \/ has(Str_tear)),
            Str_tendon_rupture>>,
          <<has(Str_tendon), Str_tendinopathy>>,
          <<has(Str_fracture) /\ has(Str_stress), Str_stress_fracture>>,
          <<has(Str_fracture), Str_bone_fracture>>,
          <<has(Str_contusion) \/ has(Str_bruise), Str_contusion>>,
          <<TRUE, Str_other>>>>

\* The category of the first rule whose condition holds.
FirstMatch(rules) ==
    rules[CHOOSE i \in 1..Len(rules) :
              rules[i][1] /\ \A j \in 1..(i - 1) : ~rules[j][1]][2]

LoweredText == replace(lower(Request.injury_type), " ", "_")

\* C26: the category of an injury text is a key of RECOVERY_BASELINES, the
\* one of the first matching rule: the text itself when it is a key, else
\* strain, sprain, tendon, fracture, contusion or bruise in this order with
\* grade 3 markers before grade 2 markers, else "other"; a text with both
\* "strain" and "sprain" that is no key is a muscle strain.
C26_FirstMatchCascade ==
    Answered =>
        /\ Prediction \in DOMAIN RECOVERY_BASELINES
        /\ Prediction = FirstMatch(CategoryRules(LoweredText))
        /\ (/\ LoweredText \notin DOMAIN RECOVERY_BASELINES
            /\ Contains(Str_strain, LoweredText)
            /\ Contains(Str_sprain, LoweredText))
               => Prediction \in {Str_muscle_strain_grade1,
                                  Str_muscle_strain_grade2,
                                  Str_muscle_strain_grade3}

\* A text with a strain, a grade 3 marker and a grade 2 marker, normalised
\* to muscle_strain_grade3.
C26_Witness ==
    /\ Answered
    /\ Contains(Str_strain, LoweredText)
    /\ Contains(Str_grade_3, LoweredText)
    /\ Contains(Str_grade_2, LoweredText)
    /\ Prediction = Str_muscle_strain_grade3

(***************************************************************************)
(* C27  The age factor of the predictor and the age modifier of the        *)
(* engine.                                                                 *)
(***************************************************************************)
\* C27: the age_factor a prediction reports is what
\* AnalyticsEngine.calculate_age_modifier returns for the same age: 1.0
\* under 25, 1.1 under 30, 1.2 under 35, 1.3 from 35 on, and 1.0 for an
\* unknown age.
C27_AgeFactorIsAgeModifier ==
    Answered =>
        /\ Prediction.modifiers_applied.age_factor
               = calculate_age_modifier(Request.athlete_age)
        /\ Prediction.modifiers_applied.age_factor
               = AgeBandModifier(Request.athlete_age)

\* A prediction for an athlete of 30 with the factor 1.2.
C27_Witness ==
    /\ Answered
    /\ Request.athlete_age = Some(30)
    /\ Prediction.modifiers_applied.age_factor = 120

(***************************************************************************)
(* C28  The stored risk assessments of an athlete and a date.              *)
(***************************************************************************)
\* C28: the store never holds two risk assessments of one athlete for one
\* date, however the two calculating endpoints are called.
C28_OneAssessmentPerAthleteAndDate ==
    \A r, q \in risk_assessments :
        (r.athlete_id = q.athlete_id /\ r.date = q.date) => r = q

(***************************************************************************)
(* C29  The baseline and the scored loads of the z-score spike.            *)
(***************************************************************************)
\* The loads of the z-score window of an answer, oldest first.
WindowLoads(c) ==
    LoadValues(ZScoreLoads(DB, c.athlete_id, c.target_date, ZSCORE_LOOKBACK))

\* The positions of the baseline in the window (the baseline is a slice
\* from the start of the window), and those of the 7 most recent loads.
BaselinePositions(load_values) == 1..Len(ZBaseline(load_values))
RecentPositions(load_values) ==
    (Len(load_values) - 6)..Len(load_values)

\* C29 as stated: with n >= 7 loads in the window, no load of the baseline
\* is one of the 7 most recent loads.
C29_BaselineExcludesRecent ==
    \A c \in Answers :
        Len(WindowLoads(c)) >= 7 =>
            BaselinePositions(WindowLoads(c))
                \cap RecentPositions(WindowLoads(c)) = {}

\* C29, amended: with n > 21 loads in the window, no load of the baseline
\* is one of the 7 most recent loads; with 7 <= n < 21 the baseline (the
\* first floor(0.75 * n) loads) holds some of them.
C29_BaselineExcludesRecentAbove21 ==
    \A c \in Answers :
        LET load_values == WindowLoads(c)
            shared == BaselinePositions(load_values)
                          \cap RecentPositions(load_values)
        IN  /\ Len(load_values) > 21 => shared = {}
            /\ (Len(load_values) >= 7 /\ Len(load_values) < 21)
                   => shared # {}

\* An answer over more than 21 loads with a z-score other than 0.
C29_Witness ==
    \E c \in Answers :
        /\ Len(WindowLoads(c)) > 21
        /\ LocalsOf(c).max_z_7d # 0

(***************************************************************************)
(* C30  The ACWR sentence and the ACWR risk of a result.                   *)
(***************************************************************************)
AcwrWarnings == {"ACWR VERY HIGH", "ACWR VERY LOW", "ACWR ELEVATED"}
AcwrSentences(c) ==
    SelectSeq(Sentences(c),
              LAMBDA s : s[1] \in AcwrWarnings \cup {"ACWR OPTIMAL"})

\* Whenever calculate_acwr returned a value, one ACWR sentence is emitted.
OneSentencePerAcwr ==
    \A c \in Answers :
        LocalsOf(c).acwr # None => Len(AcwrSentences(c)) = 1

\* "ACWR OPTIMAL" is emitted only with an ACWR risk of 20.
OptimalOnlyAtLowRisk ==
    \A c \in Answers :
        Fired(c, "ACWR OPTIMAL") => LocalsOf(c).acwr_risk = 20

\* An ACWR risk of 50 or 80 comes with a warning sentence.
WarningAtRaisedRisk ==
    \A c \in Answers :
        LocalsOf(c).acwr_risk \in {50, 80}
            => \E tag \in AcwrWarnings : Fired(c, tag)

\* C30: the ACWR sentence of a result agrees with its ACWR risk: one ACWR
\* sentence whenever calculate_acwr returned a value, "ACWR OPTIMAL" only
\* when acwr_risk is 20, a warning sentence whenever acwr_risk is 50 or 80.
C30_AcwrSentenceAgreesWithRisk ==
    OneSentencePerAcwr /\ OptimalOnlyAtLowRisk /\ WarningAtRaisedRisk

=============================================================================
